---- MODULE Spec2Model ----
(***************************************************************************)
(* NoteVault: the authentication core of the backend (User model hooks,    *)
(* token issuance, the protect middleware), registration, the ownership-   *)
(* scoped note controllers, and the browser's axios instance and hooks.    *)
(*                                                                         *)
(* The specifications share the variables:                                 *)
(*   SpecAuth   clock, login, password change, protect                     *)
(*   SpecNotes  createNote / getNotes / updateNote / deleteNote            *)
(*   SpecReg    concurrent register requests, step by store round trip     *)
(*   SpecLogin  one registered user, logins with other passwords           *)
(*   SpecBoot   process start with any environment, then requests          *)
(*   SpecPage   GET /api/notes over stores of up to MaxOwned notes         *)
(*   SpecPipe   a request through protect and the handler of its route     *)
(*   SpecSession register, login, password change and GET /api/auth/me     *)
(*   SpecConc   concurrent update and delete requests on one note          *)
(*   SpecRegLen register requests with passwords around the length limits  *)
(*   SpecFetch  the notes page fetching pages of the list                  *)
(*   SpecBrowser the axios interceptors of one tab: login, fetch, 401      *)
(*   SpecSave   the notes page creating, updating and deleting notes       *)
(***************************************************************************)
EXTENDS Integers, Sequences, FiniteSets, TLC

VARIABLES
    proc,       \* the server process: [phase, env, exitCode]
    now,        \* Date.now(), in milliseconds
    users,      \* the users collection: _id -> document
    tokens,     \* every token generateToken has signed: [jwt, at], at = Date.now() when signed
    lastChange, \* history: _id -> <<Date.now() of the last password-modifying save>> or <<>>
    nChanges,   \* history: the number of password-modifying saves so far
    notes,      \* the notes collection: _id -> document
    creator,    \* history: note _id -> the principal whose createNote request stored it
    nWrites,    \* history: the number of successful create, update and delete requests
    regs,       \* in-flight register requests: request id -> [pc, body, ...]
    ops,        \* in-flight update / delete requests: request id -> [pc, op, body, ...]
    client,     \* the browser: [ls, location, state, inflight], <<>> where not modelled
    req,        \* the last request handled
    resp        \* the response sent to it

vars == <<proc, now, users, tokens, lastChange, nChanges, notes, creator, nWrites, regs, ops,
          client, req, resp>>

(***************************************************************************)
(* Bounds of the model                                                     *)
(***************************************************************************)
TickMs == 500          \* the clock advances in steps of this many ms
MaxNow == 3000         \* the clock stops here
MaxTokens == 2         \* tokens signed at most (one is the orphan token of Init)
MaxChanges == 1        \* password-modifying saves at most
ExpiresInSec == 2      \* JWT_EXPIRES_IN of the modelled deployment, in seconds

(***************************************************************************)
(* Program constants                                                       *)
(***************************************************************************)
SALT_ROUNDS == 12
SkewMarginMs == 1000   \* Date.now() - 1000
MsPerSec == 1000       \* getTime() / 1000
BcryptMaxBytes == 72   \* bcrypt's 72-byte truncation

StartMs == MsPerSec    \* the clock at Init (so that Date.now() - 1000 >= 0)

(***************************************************************************)
(* Strings as sequences of characters                                      *)
(***************************************************************************)
LowerSeq == <<"a", "b", "c", "d", "e", "f", "g", "h", "i", "j", "k", "l", "m",
              "n", "o", "p", "q", "r", "s", "t", "u", "v", "w", "x", "y", "z">>
UpperSeq == <<"A", "B", "C", "D", "E", "F", "G", "H", "I", "J", "K", "L", "M",
              "N", "O", "P", "Q", "R", "S", "T", "U", "V", "W", "X", "Y", "Z">>
Digits == <<"0", "1", "2", "3", "4", "5", "6", "7", "8", "9">>

IsLower(c) == \E i \in DOMAIN LowerSeq : LowerSeq[i] = c
IsUpper(c) == \E i \in DOMAIN UpperSeq : UpperSeq[i] = c
IsDigit(c) == \E d \in DOMAIN Digits : Digits[d] = c
IsAlpha(c) == IsLower(c) \/ IsUpper(c)
IsAlnum(c) == IsAlpha(c) \/ IsDigit(c)

ToLowerChar(c) ==
    IF IsUpper(c) THEN LowerSeq[CHOOSE i \in DOMAIN UpperSeq : UpperSeq[i] = c] ELSE c

\* String.prototype.toLowerCase
ToLowerCase(s) == [i \in 1..Len(s) |-> ToLowerChar(s[i])]

RECURSIVE TrimStart(_)
TrimStart(s) == IF s # <<>> /\ Head(s) = " " THEN TrimStart(Tail(s)) ELSE s

RECURSIVE TrimEnd(_)
TrimEnd(s) ==
    IF s # <<>> /\ s[Len(s)] = " " THEN TrimEnd(SubSeq(s, 1, Len(s) - 1)) ELSE s

\* String.prototype.trim
Trim(s) == TrimEnd(TrimStart(s))

(***************************************************************************)
(* middlewares/validate.js (auth)                                          *)
(***************************************************************************)
\* [a-zA-Z0-9](?:[a-zA-Z0-9._%+\-]{0,62}[a-zA-Z0-9])?
EmailLocalOk(l) ==
    /\ Len(l) >= 1 /\ Len(l) <= 64
    /\ IsAlnum(l[1]) /\ IsAlnum(l[Len(l)])
    /\ \A i \in DOMAIN l : IsAlnum(l[i]) \/ l[i] \in {".", "_", "%", "+", "-"}

\* [a-zA-Z0-9](?:[a-zA-Z0-9\-]{0,61}[a-zA-Z0-9])?
EmailLabelOk(l) ==
    /\ Len(l) >= 1 /\ Len(l) <= 63
    /\ IsAlnum(l[1]) /\ IsAlnum(l[Len(l)])
    /\ \A i \in DOMAIN l : IsAlnum(l[i]) \/ l[i] = "-"

\* (?:\.[a-zA-Z]{2,})+$ : s is cut at its dots into runs of two letters or more
EmailTldsOk(s) ==
    /\ Len(s) >= 3
    /\ s[1] = "."
    /\ s[Len(s)] # "."
    /\ \A i \in DOMAIN s : s[i] = "." \/ IsAlpha(s[i])
    /\ \A i \in DOMAIN s :
           s[i] = "." => /\ i + 2 <= Len(s)
                         /\ s[i + 1] # "."
                         /\ s[i + 2] # "."

\* EMAIL_REGEX.test(s)
EmailRegexTest(s) ==
    \E k \in DOMAIN s :
        /\ s[k] = "@"
        /\ EmailLocalOk(SubSeq(s, 1, k - 1))
        /\ LET d == SubSeq(s, k + 1, Len(s))
           IN  \E j \in DOMAIN d :
                   /\ d[j] = "."
                   /\ EmailLabelOk(SubSeq(d, 1, j - 1))
                   /\ EmailTldsOk(SubSeq(d, j, Len(d)))

PasswordRegexTestNoMax(s) ==
    /\ \E i \in DOMAIN s : IsLower(s[i])
    /\ \E i \in DOMAIN s : IsUpper(s[i])
    /\ \E i \in DOMAIN s : IsDigit(s[i])
    /\ \A i \in DOMAIN s : IsAlnum(s[i]) \/ s[i] \in {"@", "$", "!", "%", "*", "?", "&"}
    /\ Len(s) >= 8

\* PASSWORD_REGEX.test(s)
PasswordRegexTest(s) ==
    /\ \E i \in DOMAIN s : IsLower(s[i])
    /\ \E i \in DOMAIN s : IsUpper(s[i])
    /\ \E i \in DOMAIN s : IsDigit(s[i])
    /\ \A i \in DOMAIN s : IsAlnum(s[i]) \/ s[i] \in {"@", "$", "!", "%", "*", "?", "&"}
    /\ Len(s) >= 8 /\ Len(s) <= 128

\* the name rule: 2-50 printable characters after trim
NameRuleOk(s) == Len(Trim(s)) >= 2 /\ Len(Trim(s)) <= 50

\* validateRegister: the fields whose rule fails
RegisterErrors(body) ==
    {f \in {"name", "email", "password"} :
        IF f = "name" THEN ~NameRuleOk(body.name)
        ELSE IF f = "email" THEN ~EmailRegexTest(Trim(body.email))
        ELSE ~PasswordRegexTest(body.password)}

\* validateLogin: the fields whose rule fails
LoginErrors(body) ==
    {f \in {"email", "password"} :
        IF f = "email" THEN ~EmailRegexTest(Trim(body.email))
        ELSE ~(Len(body.password) > 0)}

(***************************************************************************)
(* app.js: the process environment and the start of the server             *)
(*                                                                         *)
(* A variable of process.env is <<>> (undefined) or <<s>>, s its string.   *)
(***************************************************************************)
Secret == <<"k", "3", "y">>
MongoUri == <<"m", "o", "n", "g", "o", "d", "b", ":", "/", "/", "d", "b">>

\* !process.env[key]
Falsy(v) == v = <<>> \/ v[1] = <<>>

RequiredEnvMongoOnly == {"MONGO_URI"}

REQUIRED_ENV == {"MONGO_URI", "JWT_SECRET"}

\* the keys of REQUIRED_ENV that process.env lacks
MissingEnv(env) == {key \in REQUIRED_ENV : Falsy(env[key])}

\* a server that has passed the check of its environment and listens
ServerUp ==
    [phase |-> "listening",
     env |-> [MONGO_URI |-> <<MongoUri>>, JWT_SECRET |-> <<Secret>>],
     exitCode |-> <<>>]

(***************************************************************************)
(* models/User.js                                                          *)
(***************************************************************************)
UserIds == {"u1", "u2"}
GoneId == "u0"              \* subject of a token whose user document no longer exists
Pw1 == <<"A", "b", "c", "d", "e", "f", "g", "1">>
Pw2 == <<"A", "b", "c", "d", "e", "f", "g", "2">>
Passwords == {Pw1, Pw2}

\* two passwords of 73 characters that differ in the last one only
LongPrefix == <<"A", "1">> \o [i \in 1..(BcryptMaxBytes - 2) |-> "a"]
PwLongA == Append(LongPrefix, "x")
PwLongB == Append(LongPrefix, "y")
NameAnn == <<"A", "n", "n">>
NameBob == <<"B", "o", "b">>

\* bcryptjs keys the hash with the first 72 bytes of the password only
BcryptKey(plain) ==
    IF Len(plain) > BcryptMaxBytes THEN SubSeq(plain, 1, BcryptMaxBytes) ELSE plain

\* bcrypt.hash(password, salt) with salt = genSalt(SALT_ROUNDS)
BcryptHash(plain) == [alg |-> "bcrypt", rounds |-> SALT_ROUNDS, key |-> BcryptKey(plain)]

\* bcrypt.compare(candidate, hash)
BcryptCompare(candidate, hash) == hash.key = BcryptKey(candidate)

\* userSchema.methods.comparePassword
ComparePassword(user, candidatePassword) ==
    BcryptCompare(candidatePassword, user.password)

PreSaveAlsoOnCreate(doc, isModifiedPassword, isNew, t) ==
    IF ~isModifiedPassword THEN doc
    ELSE [doc EXCEPT !.password = BcryptHash(doc.password),
                     !.passwordChangedAt = <<t - SkewMarginMs>>]

\* userSchema.pre("save"): doc carries the plaintext in doc.password when modified
PreSave(doc, isModifiedPassword, isNew, t) ==
    IF ~isModifiedPassword THEN doc
    ELSE LET hashed == [doc EXCEPT !.password = BcryptHash(doc.password)]
         IN  IF ~isNew
             THEN [hashed EXCEPT !.passwordChangedAt = <<t - SkewMarginMs>>]
             ELSE hashed

ChangedPasswordAfterLeq(user, iatSeconds) ==
    IF user.passwordChangedAt # <<>>
    THEN iatSeconds <= (user.passwordChangedAt[1] \div MsPerSec)
    ELSE FALSE

\* userSchema.methods.changedPasswordAfter
ChangedPasswordAfter(user, iatSeconds) ==
    IF user.passwordChangedAt # <<>>
    THEN LET changedAt == user.passwordChangedAt[1] \div MsPerSec
         IN  iatSeconds < changedAt
    ELSE FALSE

\* the email setters of the schema: lowercase, trim
NormalizeEmail(email) == Trim(ToLowerCase(email))

\* User.findOne({ email })
FindUserByEmail(us, email) == {u \in DOMAIN us : us[u].email = email}

(***************************************************************************)
(* controllers/authController.js                                           *)
(***************************************************************************)
\* jwt.sign({ id }, secret, { expiresIn }) at Date.now() = t
GenerateToken(userId, t) ==
    [id |-> userId, iat |-> t \div MsPerSec, exp |-> (t \div MsPerSec) + ExpiresInSec]

\* a document as a query returns it: password and passwordChangedAt are
\* select: false and come only when asked for with .select("+field")
Loaded(doc, plus) ==
    [f \in (DOMAIN doc \ {"password", "passwordChangedAt"}) \cup plus |-> doc[f]]

SanitizeUserSpread(id, user) == [id |-> id] @@ user

\* sanitizeUser(user)
SanitizeUser(id, user) ==
    [id |-> id, name |-> user.name, email |-> user.email, createdAt |-> user.createdAt]

LoginResultByBranch(us, body, t) ==
    LET found == FindUserByEmail(us, Trim(ToLowerCase(body.email)))
    IN  IF LoginErrors(body) # {}
        THEN [status |-> 422, message |-> "Validation failed",
              token |-> <<>>, user |-> <<>>]
        ELSE IF found = {}
        THEN [status |-> 401, message |-> "No account with this email",
              token |-> <<>>, user |-> <<>>]
        ELSE IF \A u \in found : ~ComparePassword(us[u], body.password)
        THEN [status |-> 401, message |-> "Invalid email or password",
              token |-> <<>>, user |-> <<>>]
        ELSE LET u == CHOOSE x \in found : TRUE
             IN  [status |-> 200, message |-> "Login successful",
                  token |-> <<GenerateToken(u, t)>>, user |-> <<SanitizeUser(u, Loaded(us[u], {"password"}))>>]

\* POST /api/auth/login: validateLogin, login.
\* [status, message, token, user]; token and user are <<>> or <<value>>
LoginResult(us, body, t) ==
    LET found == FindUserByEmail(us, Trim(ToLowerCase(body.email)))
    IN  IF LoginErrors(body) # {}
        THEN [status |-> 422, message |-> "Validation failed",
              token |-> <<>>, user |-> <<>>]
        ELSE IF found = {} \/ \A u \in found : ~ComparePassword(us[u], body.password)
        THEN [status |-> 401, message |-> "Invalid email or password",
              token |-> <<>>, user |-> <<>>]
        ELSE LET u == CHOOSE x \in found : TRUE
             IN  [status |-> 200, message |-> "Login successful",
                  token |-> <<GenerateToken(u, t)>>, user |-> <<SanitizeUser(u, Loaded(us[u], {"password"}))>>]

(***************************************************************************)
(* middlewares/errorHandler.js                                             *)
(***************************************************************************)
ErrorHandlerNoDuplicateKey(err) ==
    [status |-> 500,
     message |-> IF err.message # "" THEN err.message ELSE "Internal Server Error"]

\* err: [name, code, message, keyField]
ErrorHandler(err) ==
    LET s0 == 500
        m0 == IF err.message # "" THEN err.message ELSE "Internal Server Error"
        dup == err.code = 11000
        s1 == IF dup THEN 409 ELSE s0
        m1 == IF dup
              THEN IF err.keyField = "email" THEN "Email is already in use"
                   ELSE "Field is already in use"
              ELSE m0
        s2 == IF err.name = "ValidationError" THEN 422
              ELSE IF err.name = "CastError" THEN 400
              ELSE IF err.name \in {"JsonWebTokenError", "TokenExpiredError"} THEN 401
              ELSE s1
        m2 == IF err.name = "ValidationError" THEN err.message
              ELSE IF err.name = "CastError" THEN "Invalid value"
              ELSE IF err.name = "JsonWebTokenError" THEN "Invalid token"
              ELSE IF err.name = "TokenExpiredError" THEN "Token has expired"
              ELSE m1
    IN  [status |-> s2, message |-> m2]

StoreError == [name |-> "MongoNetworkError", code |-> 0,
               message |-> "connection timed out", keyField |-> ""]

\* the errors a store operation can reject with when the connection is lost
StoreErrors ==
    {StoreError,
     [StoreError EXCEPT !.name = "MongooseServerSelectionError",
                        !.message = "getaddrinfo ENOTFOUND db.internal"]}

(***************************************************************************)
(* middlewares/authMiddleware.js                                           *)
(***************************************************************************)
\* The Authorization header as a sequence of parts: a space, a word, or a credential.
Sp == [k |-> "sp"]
Word(w) == [k |-> "word", w |-> w]
Jwt(payload, sig) == [k |-> "jwt", payload |-> payload, sig |-> sig]
Garbage == [k |-> "garbage"]
Tab == [k |-> "tab"]

BearerHeader(payload) == <<Word("Bearer"), Sp, Jwt(payload, "valid")>>

StartsWithScheme(h) == Len(h) >= 2 /\ h[1].k = "word" /\ h[2] = Sp

\* authHeader.startsWith("Bearer ")
StartsWithBearer(h) == Len(h) >= 2 /\ h[1] = Word("Bearer") /\ h[2] = Sp

\* authHeader.split(" "): the segments between spaces, each a sequence of parts
RECURSIVE SplitSpace(_, _)
SplitSpace(h, cur) ==
    IF h = <<>> THEN <<cur>>
    ELSE IF Head(h) = Sp THEN <<cur>> \o SplitSpace(Tail(h), <<>>)
    ELSE SplitSpace(Tail(h), Append(cur, Head(h)))

JwtVerifyLate(cred, t) ==
    IF cred.k # "jwt" \/ cred.sig # "valid"
    THEN [ok |-> FALSE, name |-> "JsonWebTokenError"]
    ELSE IF (t \div MsPerSec) > cred.payload.exp
    THEN [ok |-> FALSE, name |-> "TokenExpiredError"]
    ELSE [ok |-> TRUE, name |-> "", payload |-> cred.payload]

\* String.prototype.trim of a segment: leading and trailing whitespace goes
RECURSIVE TrimSeg(_)
TrimSeg(seg) ==
    IF seg = <<>> THEN seg
    ELSE IF Head(seg) = Tab THEN TrimSeg(Tail(seg))
    ELSE IF seg[Len(seg)] = Tab THEN TrimSeg(SubSeq(seg, 1, Len(seg) - 1))
    ELSE seg

\* jwt.verify(token, secret) at Date.now() = t: [ok, name, payload]
JwtVerify(cred, t) ==
    IF cred.k # "jwt" \/ cred.sig # "valid"
    THEN [ok |-> FALSE, name |-> "JsonWebTokenError"]
    ELSE IF (t \div MsPerSec) >= cred.payload.exp
    THEN [ok |-> FALSE, name |-> "TokenExpiredError"]
    ELSE [ok |-> TRUE, name |-> "", payload |-> cred.payload]

Reject401(branch, message) ==
    [out |-> "respond", status |-> 401, message |-> message, branch |-> branch, user |-> <<>>]

ProtectResultUserNotFound(h, us, t, storeFails) ==
    IF h = <<>> \/ ~StartsWithBearer(h) \/ TrimSeg(SplitSpace(h, <<>>)[2]) = <<>>
    THEN Reject401("no-token", "Access denied. No token provided.")
    ELSE LET token == TrimSeg(SplitSpace(h, <<>>)[2])[1]
             decoded == JwtVerify(token, t)
         IN  IF ~decoded.ok
             THEN IF decoded.name = "JsonWebTokenError"
                  THEN Reject401("malformed", "Invalid token.")
                  ELSE Reject401("expired", "Token has expired.")
             ELSE IF storeFails
             THEN [out |-> "error", status |-> ErrorHandler(StoreError).status,
                   message |-> ErrorHandler(StoreError).message,
                   branch |-> "store-error", user |-> <<>>]
             ELSE IF decoded.payload.id \notin DOMAIN us
             THEN Reject401("unknown-subject", "User not found.")
             ELSE IF ChangedPasswordAfter(us[decoded.payload.id], decoded.payload.iat)
             THEN Reject401("stale",
                      "Your password was recently changed. Please log in again.")
             ELSE [out |-> "next", status |-> 0, message |-> "", branch |-> "authenticated",
                   user |-> <<decoded.payload.id>>]

\* protect(req, res, next) at Date.now() = t; storeFails: User.findById throws
ProtectResult(h, us, t, storeFails) ==
    IF h = <<>> \/ ~StartsWithBearer(h) \/ TrimSeg(SplitSpace(h, <<>>)[2]) = <<>>
    THEN Reject401("no-token", "Access denied. No token provided.")
    ELSE LET token == TrimSeg(SplitSpace(h, <<>>)[2])[1]
             decoded == JwtVerify(token, t)
         IN  IF ~decoded.ok
             THEN IF decoded.name = "JsonWebTokenError"
                  THEN Reject401("malformed", "Invalid token.")
                  ELSE Reject401("expired", "Token has expired.")
             ELSE IF storeFails
             THEN [out |-> "error", status |-> ErrorHandler(StoreError).status,
                   message |-> ErrorHandler(StoreError).message,
                   branch |-> "store-error", user |-> <<>>]
             ELSE IF decoded.payload.id \notin DOMAIN us
             THEN Reject401("unknown-subject", "Invalid token.")
             ELSE IF ChangedPasswordAfter(us[decoded.payload.id], decoded.payload.iat)
             THEN Reject401("stale",
                      "Your password was recently changed. Please log in again.")
             ELSE [out |-> "next", status |-> 0, message |-> "", branch |-> "authenticated",
                   user |-> <<decoded.payload.id>>]

ProtectTraceNoReturn(h, us, t, storeFails) ==
    IF h = <<>> \/ ~StartsWithBearer(h) \/ TrimSeg(SplitSpace(h, <<>>)[2]) = <<>>
    THEN <<"extract", "res.401">>
    ELSE LET token == TrimSeg(SplitSpace(h, <<>>)[2])[1]
             decoded == JwtVerify(token, t)
         IN  IF ~decoded.ok
             THEN <<"extract", "verify", "res.401">>
             ELSE IF storeFails
             THEN <<"extract", "verify", "findById", "next(error)">>
             ELSE IF decoded.payload.id \notin DOMAIN us
             THEN <<"extract", "verify", "findById", "res.401",
                    "changedPasswordAfter", "next(error)">>
             ELSE IF ChangedPasswordAfter(us[decoded.payload.id], decoded.payload.iat)
             THEN <<"extract", "verify", "findById", "changedPasswordAfter", "res.401">>
             ELSE <<"extract", "verify", "findById", "changedPasswordAfter",
                    "req.user", "next">>

ProtectTraceLookupFirst(h, us, t, storeFails) ==
    IF h = <<>> \/ ~StartsWithBearer(h) \/ TrimSeg(SplitSpace(h, <<>>)[2]) = <<>>
    THEN <<"extract", "res.401">>
    ELSE LET token == TrimSeg(SplitSpace(h, <<>>)[2])[1]
             decoded == JwtVerify(token, t)
         IN  IF ~decoded.ok
             THEN IF token.k = "jwt"
                  THEN <<"extract", "findById", "verify", "res.401">>
                  ELSE <<"extract", "verify", "res.401">>
             ELSE IF storeFails
             THEN <<"extract", "verify", "findById", "next(error)">>
             ELSE IF decoded.payload.id \notin DOMAIN us
             THEN <<"extract", "verify", "findById", "res.401">>
             ELSE IF ChangedPasswordAfter(us[decoded.payload.id], decoded.payload.iat)
             THEN <<"extract", "verify", "findById", "changedPasswordAfter", "res.401">>
             ELSE <<"extract", "verify", "findById", "changedPasswordAfter",
                    "req.user", "next">>

\* the steps of protect, in their order: "extract" (the header is read and its token
\* part taken), "verify" (jwt.verify), "findById" (the user store is queried),
\* "changedPasswordAfter", "req.user" (req.user = user), and at the end "res.401"
\* (res.status(401).json), "next" (next()) or "next(error)"
ProtectTrace(h, us, t, storeFails) ==
    IF h = <<>> \/ ~StartsWithBearer(h) \/ TrimSeg(SplitSpace(h, <<>>)[2]) = <<>>
    THEN <<"extract", "res.401">>
    ELSE LET token == TrimSeg(SplitSpace(h, <<>>)[2])[1]
             decoded == JwtVerify(token, t)
         IN  IF ~decoded.ok
             THEN <<"extract", "verify", "res.401">>
             ELSE IF storeFails
             THEN <<"extract", "verify", "findById", "next(error)">>
             ELSE IF decoded.payload.id \notin DOMAIN us
             THEN <<"extract", "verify", "findById", "res.401">>
             ELSE IF ChangedPasswordAfter(us[decoded.payload.id], decoded.payload.iat)
             THEN <<"extract", "verify", "findById", "changedPasswordAfter", "res.401">>
             ELSE <<"extract", "verify", "findById", "changedPasswordAfter",
                    "req.user", "next">>

(***************************************************************************)
(* SpecAuth                                                                *)
(***************************************************************************)
EmailA == <<"a", "@", "x", ".", "i", "o">>
EmailB == <<"b", "@", "x", ".", "i", "o">>

NewUser(name, email, plain, t) ==
    PreSave([name |-> Trim(name), email |-> NormalizeEmail(email), password |-> plain,
             passwordChangedAt |-> <<>>, createdAt |-> t],
            TRUE, TRUE, t)

NoReq == [op |-> "none"]
NoResp == [status |-> 0, message |-> ""]

InitAuth ==
    /\ proc = ServerUp
    /\ now = StartMs
    /\ users = [u \in UserIds |->
                   IF u = "u1" THEN NewUser(NameAnn, EmailA, Pw1, StartMs)
                   ELSE NewUser(NameBob, EmailB, Pw2, StartMs)]
    /\ tokens = {[jwt |-> GenerateToken(GoneId, StartMs), at |-> StartMs]}
    /\ lastChange = [u \in UserIds |-> <<>>]
    /\ nChanges = 0
    /\ notes = <<>>
    /\ creator = <<>>
    /\ nWrites = 0
    /\ regs = <<>>
    /\ client = <<>>
    /\ ops = <<>>
    /\ req = NoReq
    /\ resp = NoResp

Tick ==
    /\ now + TickMs <= MaxNow
    /\ now' = now + TickMs
    /\ UNCHANGED <<client, ops, proc, users, tokens, lastChange, nChanges, notes, creator, nWrites, regs, req, resp>>

LoginEmails ==
    {<<" ", "A", "@", "x", ".", "i", "o">>, EmailB, <<"z", "@", "x", ".", "i", "o">>,
     <<"a", "@", "x">>}

\* POST /api/auth/login
Login(body) ==
    LET r == LoginResult(users, body, now)
    IN  /\ r.status = 200 => Cardinality(tokens) < MaxTokens
        /\ tokens' = IF r.status = 200
                     THEN tokens \cup {[jwt |-> r.token[1], at |-> now]}
                     ELSE tokens
        /\ req' = [op |-> "login", body |-> body]
        /\ resp' = r
        /\ UNCHANGED <<client, ops, proc, now, users, lastChange, nChanges, notes, creator, nWrites, regs>>

\* user.password = plain; await user.save()   (an existing document)
ChangePassword(u, plain) ==
    /\ u \in DOMAIN users
    /\ nChanges < MaxChanges
    /\ nChanges' = nChanges + 1
    /\ users' = [users EXCEPT ![u] =
                    PreSave([users[u] EXCEPT !.password = plain], TRUE, FALSE, now)]
    /\ lastChange' = [lastChange EXCEPT ![u] = <<now>>]
    /\ req' = [op |-> "changePassword", user |-> u]
    /\ resp' = NoResp
    /\ UNCHANGED <<client, ops, proc, now, tokens, notes, creator, nWrites, regs>>

\* user.name = name; await user.save()   (password not modified)
SaveProfile(u, name) ==
    /\ u \in DOMAIN users
    /\ users' = [users EXCEPT ![u] =
                    PreSave([users[u] EXCEPT !.name = name], FALSE, FALSE, now)]
    /\ req' = [op |-> "saveProfile", user |-> u]
    /\ resp' = NoResp
    /\ UNCHANGED <<client, ops, proc, now, tokens, lastChange, nChanges, notes, creator, nWrites, regs>>

Credentials ==
    {Jwt(tk.jwt, "valid") : tk \in tokens}
        \cup {Jwt(GenerateToken("u1", now), "invalid"), Garbage}

HeaderInputs ==
    {<<>>, <<Word("Basic"), Sp, Garbage>>, <<Word("Bearer"), Sp>>,
     <<Word("Bearer"), Sp, Tab>>, <<Word("Bearer"), Sp, Sp, Garbage>>}
        \cup {<<Word("Bearer"), Sp, c>> : c \in Credentials}

\* a request through protect
Protect(h, storeFails) ==
    /\ req' = [op |-> "protect", hdr |-> h]
    /\ resp' = ProtectResult(h, users, now, storeFails)
    /\ UNCHANGED <<client, ops, proc, now, users, tokens, lastChange, nChanges, notes, creator, nWrites, regs>>

NextAuth ==
    \/ Tick
    \/ \E e \in LoginEmails, p \in Passwords : Login([email |-> e, password |-> p])
    \/ \E u \in UserIds : ChangePassword(u, Pw2)
    \/ \E u \in UserIds : SaveProfile(u, users[u].name)
    \/ \E h \in HeaderInputs, f \in BOOLEAN : Protect(h, f)

SpecAuth == InitAuth /\ [][NextAuth]_vars

(***************************************************************************)
(* middlewares/validate.js (notes) and controllers/noteController.js       *)
(*                                                                         *)
(* A request body is a record of optional fields, each <<>> (undefined) or *)
(* <<value>>; title and content are strings, body.user is a smuggled owner.*)
(***************************************************************************)
MaxWrites == 2         \* successful create, update and delete requests at most

DEFAULT_LIMIT == 10
MAX_LIMIT == 50

MalformedId == 0       \* a :id that is no ObjectId

\* mongoose.isValidObjectId(req.params.id)
IsValidObjectId(id) == id # MalformedId

\* noteTitleRule.validate / noteContentRule.validate on a string
NoteTitleValid(v) == Len(Trim(v)) >= 1 /\ Len(Trim(v)) <= 200
NoteContentValid(v) == Len(Trim(v)) >= 1 /\ Len(Trim(v)) <= 10000

\* buildValidator(rules): the fields whose rule fails
ValidationErrors(body, optional) ==
    {f \in {"title", "content"} :
        IF body[f] = <<>> THEN ~optional
        ELSE IF f = "title" THEN ~NoteTitleValid(body[f][1])
        ELSE ~NoteContentValid(body[f][1])}

ValidationFailed(errors) ==
    [status |-> 422, message |-> "Validation failed", errors |-> errors, note |-> <<>>]

NotFound == [status |-> 404, message |-> "Note not found", note |-> <<>>]

\* the note as serialised in a response: the document and its _id
NoteJson(id, doc) == [id |-> id, doc |-> doc]

\* Note.create({ title, content, user }) at Date.now() = t: the stored document
NoteCreate(title, content, user, t) ==
    [title |-> Trim(title), content |-> Trim(content), user |-> user,
     createdAt |-> t, updatedAt |-> t]

CreateFieldsSpread(principal, body) ==
    [title |-> body.title, content |-> body.content,
     user |-> IF body.user # <<>> THEN body.user[1] ELSE principal]

\* createNote: the object handed to Note.create
CreateFields(principal, body) ==
    [title |-> body.title, content |-> body.content, user |-> principal]

\* POST /api/notes: validateCreateNote, createNote.  [resp, notes]
CreateNoteResult(ns, id, principal, body, t) ==
    LET errors == ValidationErrors(body, FALSE)
        f == CreateFields(principal, body)
        doc == NoteCreate(f.title[1], f.content[1], f.user, t)
    IN  IF errors # {}
        THEN [resp |-> ValidationFailed(errors), notes |-> ns]
        ELSE [resp |-> [status |-> 201, message |-> "Note created",
                        note |-> <<NoteJson(id, doc)>>],
              notes |-> ns @@ (id :> doc)]

UpdatesOfAll(body) ==
    {<<f, body[f][1]>> : f \in {g \in {"title", "content", "user"} : body[g] # <<>>}}

\* updateNote: the updates object, as a set of <<field, value>>
UpdatesOf(body) ==
    {<<f, body[f][1]>> : f \in {g \in {"title", "content"} : body[g] # <<>>}}

ApplyUpdatesReplace(doc, updates, t) ==
    LET val(f) == (CHOOSE u \in updates : u[1] = f)[2]
        has(f) == \E u \in updates : u[1] = f
    IN  [title |-> IF has("title") THEN Trim(val("title")) ELSE <<>>,
         content |-> IF has("content") THEN Trim(val("content")) ELSE <<>>,
         user |-> IF has("user") THEN val("user") ELSE doc.user,
         createdAt |-> doc.createdAt,
         updatedAt |-> t]

\* the document after $set of the updates (string setters applied) at Date.now() = t
ApplyUpdates(doc, updates, t) ==
    LET val(f) == (CHOOSE u \in updates : u[1] = f)[2]
        has(f) == \E u \in updates : u[1] = f
    IN  [title |-> IF has("title") THEN Trim(val("title")) ELSE doc.title,
         content |-> IF has("content") THEN Trim(val("content")) ELSE doc.content,
         user |-> IF has("user") THEN val("user") ELSE doc.user,
         createdAt |-> doc.createdAt,
         updatedAt |-> t]

MatchesIdOnly(ns, id, user) == id \in DOMAIN ns

\* the filter { _id: req.params.id, user: req.user._id }
MatchesOwned(ns, id, user) == id \in DOMAIN ns /\ ns[id].user = user

UpdateNoteResultUnchecked(ns, id, principal, body, t) ==
    LET errors == ValidationErrors(body, TRUE)
        updates == UpdatesOf(body)
    IN  IF ~IsValidObjectId(id)
        THEN [resp |-> [status |-> 400, message |-> "not a valid resource ID",
                        note |-> <<>>],
              notes |-> ns]
        ELSE IF errors # {}
        THEN [resp |-> ValidationFailed(errors), notes |-> ns]
        ELSE IF ~MatchesOwned(ns, id, principal)
        THEN [resp |-> NotFound, notes |-> ns]
        ELSE LET doc == ApplyUpdates(ns[id], updates, t)
             IN  [resp |-> [status |-> 200, message |-> "Note updated",
                            note |-> <<NoteJson(id, doc)>>],
                  notes |-> [ns EXCEPT ![id] = doc]]

\* PUT /api/notes/:id: validateObjectId, validateUpdateNote, updateNote.  [resp, notes]
UpdateNoteResult(ns, id, principal, body, t) ==
    LET errors == ValidationErrors(body, TRUE)
        updates == UpdatesOf(body)
    IN  IF ~IsValidObjectId(id)
        THEN [resp |-> [status |-> 400, message |-> "not a valid resource ID",
                        note |-> <<>>],
              notes |-> ns]
        ELSE IF errors # {}
        THEN [resp |-> ValidationFailed(errors), notes |-> ns]
        ELSE IF body.title = <<>> /\ body.content = <<>>
        THEN [resp |-> ValidationFailed({"body"}), notes |-> ns]
        ELSE IF updates = {}
        THEN [resp |-> [status |-> 422, message |-> "No updatable fields provided",
                        note |-> <<>>],
              notes |-> ns]
        ELSE IF ~MatchesOwned(ns, id, principal)
        THEN [resp |-> NotFound, notes |-> ns]
        ELSE LET doc == ApplyUpdates(ns[id], updates, t)
             IN  [resp |-> [status |-> 200, message |-> "Note updated",
                            note |-> <<NoteJson(id, doc)>>],
                  notes |-> [ns EXCEPT ![id] = doc]]

DeleteNoteResultKeeps(ns, id, principal) ==
    IF ~IsValidObjectId(id)
    THEN [resp |-> [status |-> 400, message |-> "not a valid resource ID", note |-> <<>>],
          notes |-> ns]
    ELSE IF ~MatchesOwned(ns, id, principal)
    THEN [resp |-> NotFound, notes |-> ns]
    ELSE [resp |-> [status |-> 200, message |-> "Note deleted", note |-> <<>>],
          notes |-> ns]

\* DELETE /api/notes/:id: validateObjectId, deleteNote.  [resp, notes]
DeleteNoteResult(ns, id, principal) ==
    IF ~IsValidObjectId(id)
    THEN [resp |-> [status |-> 400, message |-> "not a valid resource ID", note |-> <<>>],
          notes |-> ns]
    ELSE IF ~MatchesOwned(ns, id, principal)
    THEN [resp |-> NotFound, notes |-> ns]
    ELSE [resp |-> [status |-> 200, message |-> "Note deleted", note |-> <<>>],
          notes |-> [i \in DOMAIN ns \ {id} |-> ns[i]]]

\* parseInt(s, 10) of a query value (<<>> when absent): <<>> is NaN, else <<n>>
DigitVal(c) == (CHOOSE d \in 1..10 : Digits[d] = c) - 1

RECURSIVE ParseDigits(_, _)
ParseDigits(s, acc) ==
    IF s # <<>> /\ IsDigit(Head(s))
    THEN ParseDigits(Tail(s), 10 * acc + DigitVal(Head(s)))
    ELSE acc

ParseInt(v) ==
    LET s == IF v = <<>> THEN <<>> ELSE TrimStart(v[1])
        neg == s # <<>> /\ Head(s) = "-"
        body == IF neg THEN Tail(s) ELSE s
    IN  IF body = <<>> \/ ~IsDigit(Head(body)) THEN <<>>
        ELSE <<(IF neg THEN -1 ELSE 1) * ParseDigits(body, 0)>>

\* x || d for x = parseInt(...): NaN and 0 are falsy
OrDefault(x, d) == IF x = <<>> \/ x[1] = 0 THEN d ELSE x[1]

Max(a, b) == IF a >= b THEN a ELSE b
Min(a, b) == IF a <= b THEN a ELSE b

ParsePaginationSkipPages(query) ==
    LET page == Max(1, OrDefault(ParseInt(query.page), 1))
        limit == Min(MAX_LIMIT, Max(1, OrDefault(ParseInt(query.limit), DEFAULT_LIMIT)))
    IN  [page |-> page, limit |-> limit, skip |-> page * limit]

\* parsePagination(query)
ParsePagination(query) ==
    LET page == Max(1, OrDefault(ParseInt(query.page), 1))
        limit == Min(MAX_LIMIT, Max(1, OrDefault(ParseInt(query.limit), DEFAULT_LIMIT)))
    IN  [page |-> page, limit |-> limit, skip |-> (page - 1) * limit]

FilterByQueryUser(ns, query, principal) ==
    {i \in DOMAIN ns : ns[i].user = IF query.user # <<>> THEN query.user[1] ELSE principal}

\* userFilter = { user: req.user._id }: the ids of the matching notes
UserFilter(ns, query, principal) == {i \in DOMAIN ns : ns[i].user = principal}

\* the orders .sort({ updatedAt: -1 }) can return the ids in: any of the most
\* recently updated first, then the rest in such an order
RECURSIVE SortedOrders(_, _)
SortedOrders(ns, ids) ==
    IF ids = {} THEN {<<>>}
    ELSE LET newest == {i \in ids : \A j \in ids : ns[i].updatedAt >= ns[j].updatedAt}
         IN  UNION {{<<m>> \o rest : rest \in SortedOrders(ns, ids \ {m})} : m \in newest}

\* Math.ceil(a / b) for a >= 0, b >= 1
CeilDiv(a, b) == (a + b - 1) \div b

\* GET /api/notes: getNotes with the sort returning order o
GetNotesResult(ns, principal, query, o) ==
    LET pg == ParsePagination(query)
        total == Cardinality(UserFilter(ns, query, principal))
        first == pg.skip + 1
        last == Min(Len(o), pg.skip + pg.limit)
        page == [i \in 1..Max(0, last - first + 1) |-> NoteJson(o[first + i - 1], ns[o[first + i - 1]])]
    IN  [status |-> 200, count |-> Len(page), total |-> total, page |-> pg.page,
         totalPages |-> CeilDiv(total, pg.limit), notes |-> page]

(***************************************************************************)
(* SpecNotes: every request has passed protect as principal \in UserIds    *)
(***************************************************************************)
Str(s) == <<s>>

CreateBodies ==
    {[title |-> Str(<<" ", "a">>), content |-> Str(<<"c">>), user |-> <<>>],
     [title |-> Str(<<"b">>), content |-> Str(<<"d", " ">>), user |-> <<"u1">>],
     [title |-> Str(<<" ">>), content |-> <<>>, user |-> <<"u2">>]}

UpdateBodies ==
    {[title |-> <<>>, content |-> <<>>, user |-> <<"u2">>],
     [title |-> Str(<<"b", " ">>), content |-> <<>>, user |-> <<"u2">>],
     [title |-> <<>>, content |-> Str(<<"d">>), user |-> <<>>]}

Queries ==
    {[page |-> <<>>, limit |-> <<>>, user |-> <<>>],
     [page |-> Str(<<"2">>), limit |-> Str(<<"1", "x">>), user |-> <<"u1">>],
     [page |-> Str(<<"0">>), limit |-> Str(<<"-", "3">>), user |-> <<"u2">>]}

InitNotes ==
    /\ proc = ServerUp
    /\ now = MaxNow - TickMs
    /\ users = [u \in UserIds |->
                   IF u = "u1" THEN NewUser(NameAnn, EmailA, Pw1, StartMs)
                   ELSE NewUser(NameBob, EmailB, Pw2, StartMs)]
    /\ tokens = {}
    /\ lastChange = [u \in UserIds |-> <<>>]
    /\ nChanges = 0
    /\ notes = <<>>
    /\ creator = <<>>
    /\ nWrites = 0
    /\ regs = <<>>
    /\ client = <<>>
    /\ ops = <<>>
    /\ req = NoReq
    /\ resp = NoResp

\* the _id the next Note.create assigns: ids are never reused
NextNoteId == Cardinality(DOMAIN creator) + 1

\* the :id values tried: malformed, every id ever assigned, and one never assigned
IdParams == 0..NextNoteId

\* a request that changes the store counts against the budget
Budget(r) ==
    /\ r.notes # notes => nWrites < MaxWrites
    /\ nWrites' = IF r.notes # notes THEN nWrites + 1 ELSE nWrites

\* POST /api/notes as principal
CreateNote(principal, body) ==
    LET r == CreateNoteResult(notes, NextNoteId, principal, body, now)
    IN  /\ Budget(r)
        /\ notes' = r.notes
        /\ creator' = IF r.resp.status = 201 THEN creator @@ (NextNoteId :> principal)
                      ELSE creator
        /\ req' = [op |-> "create", principal |-> principal, id |-> NextNoteId, body |-> body]
        /\ resp' = r.resp
        /\ UNCHANGED <<client, ops, proc, now, users, tokens, lastChange, nChanges, regs>>

\* GET /api/notes as principal
GetNotes(principal, query) ==
    /\ \E o \in SortedOrders(notes, UserFilter(notes, query, principal)) :
           resp' = GetNotesResult(notes, principal, query, o)
    /\ req' = [op |-> "list", principal |-> principal, id |-> 0, body |-> query]
    /\ UNCHANGED <<client, ops, proc, now, users, tokens, lastChange, nChanges, notes, creator, nWrites, regs>>

\* PUT /api/notes/:id as principal
UpdateNote(principal, id, body) ==
    LET r == UpdateNoteResult(notes, id, principal, body, now)
    IN  /\ Budget(r)
        /\ notes' = r.notes
        /\ req' = [op |-> "update", principal |-> principal, id |-> id, body |-> body]
        /\ resp' = r.resp
        /\ UNCHANGED <<client, ops, proc, now, users, tokens, lastChange, nChanges, creator, regs>>

\* DELETE /api/notes/:id as principal
DeleteNote(principal, id) ==
    LET r == DeleteNoteResult(notes, id, principal)
    IN  /\ Budget(r)
        /\ notes' = r.notes
        /\ req' = [op |-> "delete", principal |-> principal, id |-> id, body |-> <<>>]
        /\ resp' = r.resp
        /\ UNCHANGED <<client, ops, proc, now, users, tokens, lastChange, nChanges, creator, regs>>

NextNotes ==
    \/ Tick
    \/ \E u \in UserIds, b \in CreateBodies : CreateNote(u, b)
    \/ \E u \in UserIds, q \in Queries : GetNotes(u, q)
    \/ \E u \in UserIds, i \in IdParams, b \in UpdateBodies : UpdateNote(u, i, b)
    \/ \E u \in UserIds, i \in IdParams : DeleteNote(u, i)

SpecNotes == InitNotes /\ [][NextNotes]_vars

(***************************************************************************)
(* SpecPage: GET /api/notes over stores of up to MaxOwned notes per user   *)
(***************************************************************************)
MaxOwned == 7          \* notes of one user at most
MaxPage == 3           \* the pages requested: 1..MaxPage

\* the decimal digits a client writes the number n >= 0 with
RECURSIVE IntToStr(_)
IntToStr(n) ==
    IF n < 10 THEN <<Digits[n + 1]>>
    ELSE Append(IntToStr(n \div 10), Digits[(n % 10) + 1])

PageQuery(p, l) == [page |-> Str(IntToStr(p)), limit |-> Str(IntToStr(l)), user |-> <<>>]

PageQueries ==
    {[page |-> <<>>, limit |-> <<>>, user |-> <<>>], PageQuery(1, MAX_LIMIT + 1)}
        \cup {PageQuery(p, l) : p \in 1..MaxPage, l \in {1, 5}}

\* a store after n1 createNote requests of u1 and n2 of u2, one per millisecond
InitPage ==
    \E n1 \in 0..MaxOwned, n2 \in 0..1 :
        /\ proc = ServerUp
        /\ now = StartMs + n1 + n2
        /\ users = [u \in UserIds |->
                       IF u = "u1" THEN NewUser(NameAnn, EmailA, Pw1, StartMs)
                       ELSE NewUser(NameBob, EmailB, Pw2, StartMs)]
        /\ tokens = {}
        /\ lastChange = [u \in UserIds |-> <<>>]
        /\ nChanges = 0
        /\ notes = [i \in 1..(n1 + n2) |->
                       NoteCreate(<<"t">>, <<"c">>, IF i <= n1 THEN "u1" ELSE "u2",
                                  StartMs + i - 1)]
        /\ creator = [i \in 1..(n1 + n2) |-> IF i <= n1 THEN "u1" ELSE "u2"]
        /\ nWrites = n1 + n2
        /\ regs = <<>>
        /\ client = <<>>
        /\ ops = <<>>
        /\ req = NoReq
        /\ resp = NoResp

NextPage ==
    \E u \in UserIds, q \in PageQueries : GetNotes(u, q)

SpecPage == InitPage /\ [][NextPage]_vars

(***************************************************************************)
(* SpecPipe: a request through the middleware chain of its route           *)
(*                                                                         *)
(* req: [op, id, body, hdr, chain, user, protect, handled, storeBefore].   *)
(* chain: the middlewares still to run; user: req.user, <<>> or <<_id>>;   *)
(* protect, handled, storeBefore: history of the request.                  *)
(***************************************************************************)
NotesMountOpen == <<"noteRoutes">>

\* app.use("/api/notes", protect, require("./routes/noteRoutes"))
NotesMount == <<"protect", "noteRoutes">>

\* router.get("/me", protect, getMe)
MeRoute == <<"protect", "getMe">>

Mount(op) == IF op = "getMe" THEN MeRoute ELSE NotesMount

PipeRequests ==
    {[op |-> "createNote", id |-> 0, body |-> b] : b \in {c \in CreateBodies : c.user = <<>>}}
        \cup {[op |-> "getNotes", id |-> 0, body |-> q] : q \in {x \in Queries : x.page = <<>>}}
        \cup {[op |-> "updateNote", id |-> i, body |-> b] :
                  i \in 1..2, b \in {c \in UpdateBodies : c.content # <<>>}}
        \cup {[op |-> "deleteNote", id |-> i, body |-> <<>>] : i \in 1..2}
        \cup {[op |-> "getMe", id |-> 0, body |-> <<>>]}

PipeHeaders ==
    {<<>>, <<Word("Bearer"), Sp>>, <<Word("Bearer"), Sp, Garbage>>}
        \cup {BearerHeader(tk.jwt) : tk \in tokens}

InitPipe ==
    /\ proc = ServerUp
    /\ now = StartMs
    /\ users = [u \in UserIds |->
                   IF u = "u1" THEN NewUser(NameAnn, EmailA, Pw1, StartMs)
                   ELSE NewUser(NameBob, EmailB, Pw2, StartMs)]
    /\ tokens = {[jwt |-> GenerateToken(u, StartMs), at |-> StartMs] :
                    u \in UserIds \cup {GoneId}}
    /\ lastChange = [u \in UserIds |-> <<>>]
    /\ nChanges = 0
    /\ notes = <<>>
    /\ creator = <<>>
    /\ nWrites = 0
    /\ regs = <<>>
    /\ client = <<>>
    /\ ops = <<>>
    /\ req = NoReq
    /\ resp = NoResp

\* the request in req still has middlewares to run
InChain == IF "chain" \in DOMAIN req THEN req.chain # <<>> ELSE FALSE

\* the request enters the chain its route is mounted with
Arrive(rq, h) ==
    /\ ~InChain
    /\ req' = [op |-> rq.op, id |-> rq.id, body |-> rq.body, hdr |-> h,
               chain |-> Mount(rq.op), user |-> <<>>, protect |-> <<>>,
               handled |-> FALSE, storeBefore |-> notes]
    /\ resp' = NoResp
    /\ UNCHANGED <<client, ops, proc, now, users, tokens, lastChange, nChanges, notes, creator, nWrites,
                   regs>>

\* protect runs: req.user = user; next(), or a response, or next(error)
RunProtect(storeFails) ==
    /\ InChain /\ Head(req.chain) = "protect"
    /\ LET r == ProtectResult(req.hdr, users, now, storeFails)
       IN  /\ req' = [req EXCEPT !.protect = <<r>>, !.user = r.user,
                                 !.chain = IF r.out = "next" THEN Tail(@) ELSE <<>>]
           /\ resp' = IF r.out = "next" THEN resp ELSE r
    /\ UNCHANGED <<client, ops, proc, now, users, tokens, lastChange, nChanges, notes, creator, nWrites,
                   regs>>

\* reading req.user._id (or req.user.name) of an undefined req.user, inside try
UndefinedUserError ==
    [name |-> "TypeError", code |-> 0, keyField |-> "",
     message |-> "Cannot read properties of undefined"]

\* the handler of the route runs with req.user as protect left it
HandlerResult(rq, ns, id, o, t) ==
    IF rq.user = <<>>
    THEN [resp |-> ErrorHandler(UndefinedUserError), notes |-> ns]
    ELSE LET principal == rq.user[1]
         IN  IF rq.op = "createNote"
             THEN CreateNoteResult(ns, id, principal, rq.body, t)
             ELSE IF rq.op = "getNotes"
             THEN [resp |-> GetNotesResult(ns, principal, rq.body, o), notes |-> ns]
             ELSE IF rq.op = "updateNote"
             THEN UpdateNoteResult(ns, rq.id, principal, rq.body, t)
             ELSE IF rq.op = "deleteNote"
             THEN DeleteNoteResult(ns, rq.id, principal)
             ELSE [resp |-> [status |-> 200,
                             user |-> <<SanitizeUser(principal,
                                         Loaded(users[principal], {"passwordChangedAt"}))>>],
                   notes |-> ns]

RunHandler ==
    /\ InChain /\ Head(req.chain) # "protect"
    /\ \E o \in SortedOrders(notes,
                   IF req.user = <<>> THEN {}
                   ELSE UserFilter(notes, req.body, req.user[1])) :
           LET r == HandlerResult(req, notes, NextNoteId, o, now)
           IN  /\ Budget(r)
               /\ notes' = r.notes
               /\ creator' = IF req.op = "createNote" /\ r.resp.status = 201
                             THEN creator @@ (NextNoteId :> req.user[1])
                             ELSE creator
               /\ resp' = r.resp
    /\ req' = [req EXCEPT !.chain = <<>>, !.handled = TRUE]
    /\ UNCHANGED <<client, ops, proc, now, users, tokens, lastChange, nChanges, regs>>

NextPipe ==
    \/ \E rq \in PipeRequests, h \in PipeHeaders : Arrive(rq, h)
    \/ \E f \in BOOLEAN : RunProtect(f)
    \/ RunHandler

SpecPipe == InitPipe /\ [][NextPipe]_vars

(***************************************************************************)
(* SpecConc: concurrent update and delete requests of the owner on a note  *)
(*                                                                         *)
(* ops[r]: [pc, op, body, seq, resp]; pc runs idle, store (the handler     *)
(* awaits findOneAndUpdate / findOneAndDelete), stored (the store has      *)
(* applied it), done (the response is sent); seq: history, the position of *)
(* the request's store operation among all store operations.               *)
(***************************************************************************)
NumOps == 2            \* update / delete requests in flight at most

OpIds == 1..NumOps

ConcNote == 1          \* the _id of the note the requests address
ConcOwner == "u1"

ConcRequests ==
    {[op |-> "updateNote", body |-> b] :
         b \in {c \in UpdateBodies : c.title # <<>> \/ c.content # <<>>}
                   \cup {[title |-> Str(<<"e">>), content |-> Str(<<"f">>), user |-> <<>>]}}
        \cup {[op |-> "deleteNote", body |-> <<>>]}

IdleOp == [pc |-> "idle", op |-> "", body |-> <<>>, seq |-> 0, resp |-> NoResp]

InitConc ==
    /\ proc = ServerUp
    /\ now = StartMs + TickMs
    /\ users = [u \in UserIds |->
                   IF u = "u1" THEN NewUser(NameAnn, EmailA, Pw1, StartMs)
                   ELSE NewUser(NameBob, EmailB, Pw2, StartMs)]
    /\ tokens = {}
    /\ lastChange = [u \in UserIds |-> <<>>]
    /\ nChanges = 0
    /\ notes = (ConcNote :> NoteCreate(<<"a">>, <<"c">>, ConcOwner, StartMs))
    /\ creator = (ConcNote :> ConcOwner)
    /\ nWrites = 1
    /\ regs = <<>>
    /\ client = <<>>
    /\ ops = [r \in OpIds |-> IdleOp]
    /\ req = NoReq
    /\ resp = NoResp

\* the request of op (rq) on the note at the store in state ns: [resp, notes]
OpResult(rq, ns, t) ==
    IF rq.op = "updateNote"
    THEN UpdateNoteResult(ns, ConcNote, ConcOwner, rq.body, t)
    ELSE DeleteNoteResult(ns, ConcNote, ConcOwner)

\* the request arrives: the validators and the handler run up to the await
OpStart(r, rq) ==
    /\ ops[r].pc = "idle"
    /\ LET res == OpResult(rq, notes, now)
       IN  ops' = [ops EXCEPT ![r] =
               IF res.resp.status \in {400, 422}
               THEN [IdleOp EXCEPT !.pc = "done", !.op = rq.op, !.body = rq.body,
                                   !.resp = res.resp]
               ELSE [IdleOp EXCEPT !.pc = "store", !.op = rq.op, !.body = rq.body]]
    /\ UNCHANGED <<client, proc, now, users, tokens, lastChange, nChanges, notes, creator, nWrites,
                   regs, req, resp>>

\* the store applies findOneAndUpdate / findOneAndDelete: filter and write in one step
OpStore(r) ==
    /\ ops[r].pc = "store"
    /\ LET res == OpResult(ops[r], notes, now)
           applied == {q \in OpIds : ops[q].seq > 0}
       IN  /\ notes' = res.notes
           /\ ops' = [ops EXCEPT ![r].pc = "stored", ![r].resp = res.resp,
                                 ![r].seq = Cardinality(applied) + 1]
    /\ UNCHANGED <<client, proc, now, users, tokens, lastChange, nChanges, creator, nWrites,
                   regs, req, resp>>

\* the handler resumes and sends the response
OpRespond(r) ==
    /\ ops[r].pc = "stored"
    /\ ops' = [ops EXCEPT ![r].pc = "done"]
    /\ req' = [op |-> ops[r].op, principal |-> ConcOwner, id |-> ConcNote,
               body |-> ops[r].body]
    /\ resp' = ops[r].resp
    /\ UNCHANGED <<client, proc, now, users, tokens, lastChange, nChanges, notes, creator, nWrites,
                   regs>>

NextConc ==
    \/ \E r \in OpIds, rq \in ConcRequests : OpStart(r, rq)
    \/ \E r \in OpIds : OpStore(r)
    \/ \E r \in OpIds : OpRespond(r)

SpecConc == InitConc /\ [][NextConc]_vars

(***************************************************************************)
(* The browser: hooks/useNotes, context/AuthContext, api/axios             *)
(*                                                                         *)
(* client: [ls, location, state, inflight, since401].  ls: localStorage,   *)
(* key -> <<value>> or <<>>; location: window.location; state: the state   *)
(* of useNotes; inflight: the requests sent and not yet answered;          *)
(* since401: history, a 401 has arrived and no login has succeeded since.  *)
(* A value that can be undefined is <<>> or <<v>>; the notes of the state  *)
(* are their _ids.                                                         *)
(***************************************************************************)
MaxInflight == 2       \* requests of the browser in flight at most
MaxClientNotes == 10   \* notes of the user in the stores a fetch runs against
MaxFetchPage == 2      \* the pages fetched: 1..MaxFetchPage

ClientLimit == 9       \* fetchNotes: limit = 9

\* obj[f] of a JavaScript object: undefined when obj has no such property
Get(obj, f) == IF f \in DOMAIN obj THEN <<obj[f]>> ELSE <<>>

\* useNotes: initialState
InitialState ==
    [notes |-> <<>>, total |-> <<0>>, pages |-> <<1>>, page |-> <<1>>,
     loading |-> FALSE, saving |-> FALSE, error |-> <<>>]

\* useNotes: reducer(state, action), action = [type, payload]
Reducer(state, action) ==
    CASE action.type = "FETCH_START" ->
             [state EXCEPT !.loading = TRUE, !.error = <<>>]
      [] action.type = "FETCH_SUCCESS" ->
             [state EXCEPT !.loading = FALSE,
                           !.notes = action.payload.notes,
                           !.total = action.payload.total,
                           !.pages = action.payload.pages,
                           !.page = action.payload.page]
      [] action.type = "FETCH_ERROR" ->
             [state EXCEPT !.loading = FALSE, !.error = <<action.payload>>]
      [] action.type = "SAVE_START" ->
             [state EXCEPT !.saving = TRUE, !.error = <<>>]
      [] action.type = "SAVE_ERROR" ->
             [state EXCEPT !.saving = FALSE, !.error = <<action.payload>>]
      [] action.type = "NOTE_CREATED" ->
             [state EXCEPT !.saving = FALSE,
                           !.notes = <<action.payload>> \o state.notes,
                           !.total = IF state.total = <<>> THEN <<>>
                                     ELSE <<state.total[1] + 1>>]
      [] action.type = "NOTE_UPDATED" ->
             [state EXCEPT !.saving = FALSE]
      [] action.type = "NOTE_DELETED" ->
             [state EXCEPT !.saving = FALSE,
                           !.notes = SelectSeq(state.notes, LAMBDA n : n # action.payload),
                           !.total = IF state.total = <<>> THEN <<>>
                                     ELSE <<Max(0, state.total[1] - 1)>>]
      [] action.type = "SET_PAGE" ->
             [state EXCEPT !.page = <<action.payload>>]
      [] action.type = "CLEAR_ERROR" ->
             [state EXCEPT !.error = <<>>]
      [] OTHER -> state

\* fetchNotes: the payload of FETCH_SUCCESS built from the response body data
FetchPayload(data) ==
    [notes |-> IF "notes" \in DOMAIN data
               THEN [i \in DOMAIN data.notes |-> data.notes[i].id] ELSE <<>>,
     total |-> Get(data, "total"),
     pages |-> Get(data, "pages"),
     page |-> Get(data, "page")]

\* NotesPage: {!loading && pages > 1 && <Pagination/>}; undefined > 1 is false
PaginationShown(state) ==
    ~state.loading /\ state.pages # <<>> /\ state.pages[1] > 1

\* the sequence s without its i-th element
Without(s, i) == SubSeq(s, 1, i - 1) \o SubSeq(s, i + 1, Len(s))

NoStorage == [token |-> <<>>, user |-> <<>>]

(***************************************************************************)
(* SpecFetch: the notes page of u1 fetching pages of the list              *)
(***************************************************************************)
InitFetch ==
    \E n1 \in 0..MaxClientNotes :
        /\ proc = ServerUp
        /\ now = StartMs + n1
        /\ users = [u \in UserIds |->
                       IF u = "u1" THEN NewUser(NameAnn, EmailA, Pw1, StartMs)
                       ELSE NewUser(NameBob, EmailB, Pw2, StartMs)]
        /\ tokens = {}
        /\ lastChange = [u \in UserIds |-> <<>>]
        /\ nChanges = 0
        /\ notes = [i \in 1..n1 |-> NoteCreate(<<"t">>, <<"c">>, "u1", StartMs + i - 1)]
        /\ creator = [i \in 1..n1 |-> "u1"]
        /\ nWrites = n1
        /\ regs = <<>>
        /\ ops = <<>>
        /\ client = [ls |-> NoStorage, location |-> "/notes", state |-> InitialState,
                     inflight |-> <<>>, since401 |-> FALSE]
        /\ req = NoReq
        /\ resp = NoResp

\* fetchNotes(page): FETCH_START, then api.get("/notes", { params: { page, limit } })
FetchNotes(page) ==
    /\ Len(client.inflight) < MaxInflight
    /\ client' = [client EXCEPT
           !.state = Reducer(client.state, [type |-> "FETCH_START", payload |-> <<>>]),
           !.inflight = Append(client.inflight,
                               [op |-> "fetch", page |-> page, limit |-> ClientLimit])]
    /\ UNCHANGED <<proc, now, users, tokens, lastChange, nChanges, notes, creator, nWrites,
                   regs, ops, req, resp>>

\* the answer of getNotes to the i-th request in flight arrives: FETCH_SUCCESS
FetchSuccess(i) ==
    /\ i \in DOMAIN client.inflight
    /\ client.inflight[i].op = "fetch"
    /\ LET rq == client.inflight[i]
           q == PageQuery(rq.page, rq.limit)
       IN  \E o \in SortedOrders(notes, UserFilter(notes, q, "u1")) :
               LET data == GetNotesResult(notes, "u1", q, o)
               IN  /\ client' = [client EXCEPT
                          !.state = Reducer(client.state,
                                            [type |-> "FETCH_SUCCESS",
                                             payload |-> FetchPayload(data)]),
                          !.inflight = Without(client.inflight, i)]
                   /\ req' = [op |-> "fetch", principal |-> "u1", id |-> 0, body |-> q]
                   /\ resp' = data
    /\ UNCHANGED <<proc, now, users, tokens, lastChange, nChanges, notes, creator, nWrites,
                   regs, ops>>

\* the i-th request in flight fails (the 10 s timeout, no network): FETCH_ERROR
FetchError(i) ==
    /\ i \in DOMAIN client.inflight
    /\ client.inflight[i].op = "fetch"
    /\ client' = [client EXCEPT
           !.state = Reducer(client.state,
                             [type |-> "FETCH_ERROR",
                              payload |-> "Failed to load notes. Please try again."]),
           !.inflight = Without(client.inflight, i)]
    /\ req' = [op |-> "fetch", principal |-> "u1", id |-> 0,
               body |-> PageQuery(client.inflight[i].page, client.inflight[i].limit)]
    /\ resp' = [status |-> 0, message |-> "timeout"]
    /\ UNCHANGED <<proc, now, users, tokens, lastChange, nChanges, notes, creator, nWrites,
                   regs, ops>>

NextFetch ==
    \/ \E p \in 1..MaxFetchPage : FetchNotes(p)
    \/ \E i \in 1..MaxInflight : FetchSuccess(i)
    \/ \E i \in 1..MaxInflight : FetchError(i)

SpecFetch == InitFetch /\ [][NextFetch]_vars

(***************************************************************************)
(* SpecBrowser: the axios instance of one browser tab against the server   *)
(***************************************************************************)
\* api.interceptors.request: attach the token of localStorage, if there is one
RequestInterceptor(ls, config) ==
    IF ls.token # <<>> THEN [config EXCEPT !.hdr = BearerHeader(ls.token[1])] ELSE config

ResponseInterceptorKeepsUser(c, status) ==
    IF status = 401
    THEN [c EXCEPT !.ls = [c.ls EXCEPT !.token = <<>>], !.location = "/login"]
    ELSE c

\* api.interceptors.response, error branch: the browser after a response with status
ResponseInterceptor(c, status) ==
    IF status = 401
    THEN [c EXCEPT !.ls = NoStorage, !.location = "/login"]
    ELSE c

\* AuthProvider: persist(newToken, newUser)
Persist(c, newToken, newUser) ==
    [c EXCEPT !.ls = [token |-> <<newToken>>, user |-> <<newUser>>]]

BrowserLogins ==
    {[email |-> EmailA, password |-> Pw1], [email |-> EmailA, password |-> Pw2]}

InitBrowser ==
    /\ proc = ServerUp
    /\ now = StartMs
    /\ users = [u \in UserIds |->
                   IF u = "u1" THEN NewUser(NameAnn, EmailA, Pw1, StartMs)
                   ELSE NewUser(NameBob, EmailB, Pw2, StartMs)]
    /\ tokens = {}
    /\ lastChange = [u \in UserIds |-> <<>>]
    /\ nChanges = 0
    /\ notes = <<>>
    /\ creator = <<>>
    /\ nWrites = 0
    /\ regs = <<>>
    /\ ops = <<>>
    /\ client = [ls |-> NoStorage, location |-> "/login", state |-> InitialState,
                 inflight |-> <<>>, since401 |-> FALSE]
    /\ req = NoReq
    /\ resp = NoResp

\* a request leaves through the request interceptor
Send(op, body) ==
    /\ Len(client.inflight) < MaxInflight
    /\ client' = [client EXCEPT !.inflight =
           Append(client.inflight,
                  RequestInterceptor(client.ls,
                      [op |-> op, body |-> body, hdr |-> <<>>,
                       after401 |-> client.since401]))]
    /\ UNCHANGED <<proc, now, users, tokens, lastChange, nChanges, notes, creator, nWrites,
                   regs, ops, req, resp>>

\* login(): api.post("/auth/login", { email, password })
BrowserLogin(body) == Send("browserLogin", body)

\* fetchNotes(): api.get("/notes")
BrowserFetch == Send("browserFetch", <<>>)

\* the server's answer to the request rq at Date.now() = t: [status, token, user]
ServerAnswer(rq, us, t) ==
    IF rq.op = "browserLogin"
    THEN LET r == LoginResult(us, rq.body, t)
         IN  [status |-> r.status, token |-> r.token, user |-> r.user]
    ELSE LET r == ProtectResult(rq.hdr, us, t, FALSE)
         IN  [status |-> IF r.out = "next" THEN 200 ELSE r.status,
              token |-> <<>>, user |-> <<>>]

\* the answer to the i-th request in flight arrives: the response interceptor, then
\* the caller (login persists the token and the user of a 2xx answer)
BrowserResponse(i) ==
    /\ i \in DOMAIN client.inflight
    /\ LET rq == client.inflight[i]
           r == ServerAnswer(rq, users, now)
           c1 == [client EXCEPT !.inflight = Without(client.inflight, i)]
           c2 == IF r.status = 200 THEN c1 ELSE ResponseInterceptor(c1, r.status)
           c3 == IF rq.op = "browserLogin" /\ r.status = 200
                 THEN Persist(c2, r.token[1], r.user[1]) ELSE c2
       IN  /\ client' = [c3 EXCEPT !.since401 =
                  IF r.status = 401 THEN TRUE
                  ELSE IF rq.op = "browserLogin" /\ r.status = 200 THEN FALSE
                  ELSE client.since401]
           /\ tokens' = IF r.token # <<>>
                        THEN tokens \cup {[jwt |-> r.token[1], at |-> now]} ELSE tokens
           /\ req' = [op |-> rq.op, body |-> rq.body, hdr |-> rq.hdr]
           /\ resp' = r
    /\ UNCHANGED <<proc, now, users, lastChange, nChanges, notes, creator, nWrites,
                   regs, ops>>

\* window.location.href = "/login" takes effect: the page is loaded anew and the
\* requests of the old page are aborted
BrowserUnload ==
    /\ client.location = "/login"
    /\ client.inflight # <<>>
    /\ client' = [client EXCEPT !.inflight = <<>>, !.state = InitialState]
    /\ UNCHANGED <<proc, now, users, tokens, lastChange, nChanges, notes, creator, nWrites,
                   regs, ops, req, resp>>

NextBrowser ==
    \/ Tick
    \/ \E b \in BrowserLogins : BrowserLogin(b)
    \/ BrowserFetch
    \/ \E i \in 1..MaxInflight : BrowserResponse(i)
    \/ BrowserUnload

SpecBrowser == InitBrowser /\ [][NextBrowser]_vars

(***************************************************************************)
(* SpecSave: the notes page of u1 creating, updating and deleting notes    *)
(***************************************************************************)
MaxSaves == 4          \* store-changing requests at most, the first note included

SaveOps == {"createNote", "updateNote", "deleteNote"}

\* the store holds one note of u1 and the page has fetched it
InitSave ==
    /\ proc = ServerUp
    /\ now = StartMs + TickMs
    /\ users = [u \in UserIds |->
                   IF u = "u1" THEN NewUser(NameAnn, EmailA, Pw1, StartMs)
                   ELSE NewUser(NameBob, EmailB, Pw2, StartMs)]
    /\ tokens = {}
    /\ lastChange = [u \in UserIds |-> <<>>]
    /\ nChanges = 0
    /\ notes = (1 :> NoteCreate(<<"a">>, <<"c">>, "u1", StartMs))
    /\ creator = (1 :> "u1")
    /\ nWrites = 1
    /\ regs = <<>>
    /\ ops = <<>>
    /\ client = [ls |-> NoStorage, location |-> "/notes",
                 state |-> [InitialState EXCEPT !.notes = <<1>>, !.total = <<1>>],
                 inflight |-> <<>>, since401 |-> FALSE]
    /\ req = NoReq
    /\ resp = NoResp

\* createNote / updateNote / deleteNote of the hook, up to the await: SAVE_START,
\* then the request is sent
HookCall(op, id, body) ==
    /\ Len(client.inflight) < MaxInflight
    /\ nWrites + Len(client.inflight) < MaxSaves
    /\ client' = [client EXCEPT
           !.state = Reducer(client.state, [type |-> "SAVE_START", payload |-> <<>>]),
           !.inflight = Append(client.inflight, [op |-> op, id |-> id, body |-> body])]
    /\ UNCHANGED <<proc, now, users, tokens, lastChange, nChanges, notes, creator, nWrites,
                   regs, ops, req, resp>>

HookCreateNote(body) == HookCall("createNote", 0, body)
HookUpdateNote(id, body) == HookCall("updateNote", id, body)
HookDeleteNote(id) == HookCall("deleteNote", id, <<>>)

\* the server's handling of the request rq of u1: [resp, notes]
SaveResult(rq, ns, id, t) ==
    IF rq.op = "createNote" THEN CreateNoteResult(ns, id, "u1", rq.body, t)
    ELSE IF rq.op = "updateNote" THEN UpdateNoteResult(ns, rq.id, "u1", rq.body, t)
    ELSE DeleteNoteResult(ns, rq.id, "u1")

\* the dispatch after the await: NOTE_CREATED / NOTE_UPDATED / NOTE_DELETED, or
\* SAVE_ERROR from the catch block
SaveDispatch(rq, r) ==
    IF r.status \notin {200, 201} THEN [type |-> "SAVE_ERROR", payload |-> r.message]
    ELSE IF rq.op = "createNote" THEN [type |-> "NOTE_CREATED", payload |-> r.note[1].id]
    ELSE IF rq.op = "updateNote" THEN [type |-> "NOTE_UPDATED", payload |-> r.note[1].id]
    ELSE [type |-> "NOTE_DELETED", payload |-> rq.id]

\* the server handles the i-th request in flight and its answer arrives
HookResponse(i) ==
    /\ i \in DOMAIN client.inflight
    /\ LET rq == client.inflight[i]
           r == SaveResult(rq, notes, NextNoteId, now)
       IN  /\ notes' = r.notes
           /\ creator' = IF rq.op = "createNote" /\ r.resp.status = 201
                         THEN creator @@ (NextNoteId :> "u1") ELSE creator
           /\ nWrites' = IF r.notes # notes THEN nWrites + 1 ELSE nWrites
           /\ client' = [client EXCEPT
                  !.state = Reducer(client.state, SaveDispatch(rq, r.resp)),
                  !.inflight = Without(client.inflight, i)]
           /\ req' = [op |-> rq.op, principal |-> "u1", id |-> rq.id, body |-> rq.body]
           /\ resp' = r.resp
    /\ UNCHANGED <<proc, now, users, tokens, lastChange, nChanges, regs, ops>>

NextSave ==
    \/ \E b \in CreateBodies : HookCreateNote(b)
    \/ \E id \in DOMAIN creator, b \in UpdateBodies : HookUpdateNote(id, b)
    \/ \E id \in DOMAIN creator : HookDeleteNote(id)
    \/ \E i \in 1..MaxInflight : HookResponse(i)

SpecSave == InitSave /\ [][NextSave]_vars

(***************************************************************************)
(* SpecReg: POST /api/auth/register, one action per store round trip       *)
(***************************************************************************)
NumRegs == 2           \* register requests in flight at most

RegIds == 1..NumRegs

\* the _id the store assigns to the document request r inserts
RegUserIds == <<"u3", "u4", "u5", "u6">>

EmailC == <<"c", "@", "x", ".", "i", "o">>

RegBodies ==
    {[name |-> <<" ">> \o NameBob, email |-> <<" ", "A", "@", "x", ".", "i", "o">>,
      password |-> Pw2],
     [name |-> NameBob, email |-> EmailC, password |-> Pw1],
     [name |-> NameAnn, email |-> <<"C", "@", "x", ".", "i", "o", " ">>, password |-> Pw2],
     [name |-> NameAnn, email |-> EmailC, password |-> <<"a", "b", "c">>]}

RegResp(status, message, token, user) ==
    [status |-> status, message |-> message, token |-> token, user |-> user]

EmailExistsResponse400 ==
    RegResp(400, "An account with this email already exists", <<>>, <<>>)

\* register: the response when findOne returns a user
EmailExistsResponse ==
    RegResp(409, "An account with this email already exists", <<>>, <<>>)

\* the unique index on email: inserting doc would duplicate a key
UniqueViolation(us, doc) == \E u \in DOMAIN us : us[u].email = doc.email

DuplicateKeyError ==
    [name |-> "MongoServerError", code |-> 11000,
     message |-> "E11000 duplicate key error collection: users index: email_1",
     keyField |-> "email"]

IdleReg == [pc |-> "idle", body |-> <<>>, snapshot |-> {}, passed |-> FALSE,
            resp |-> RegResp(0, "", <<>>, <<>>)]

InitReg ==
    /\ proc = ServerUp
    /\ now = StartMs
    /\ users = ("u1" :> NewUser(NameAnn, EmailA, Pw1, StartMs))
    /\ tokens = {}
    /\ lastChange = [u \in UserIds |-> <<>>]
    /\ nChanges = 0
    /\ notes = <<>>
    /\ creator = <<>>
    /\ nWrites = 0
    /\ regs = [r \in RegIds |-> IdleReg]
    /\ client = <<>>
    /\ ops = <<>>
    /\ req = NoReq
    /\ resp = NoResp

\* the request arrives: validateRegister, then register runs up to await User.findOne.
\* snapshot (history): the users that hold the normalised email at this moment
RegisterStart(r, body) ==
    /\ regs[r].pc = "idle"
    /\ regs' = [regs EXCEPT ![r] =
           IF RegisterErrors(body) # {}
           THEN [IdleReg EXCEPT !.pc = "done", !.body = body,
                                !.resp = RegResp(422, "Validation failed", <<>>, <<>>)]
           ELSE [IdleReg EXCEPT !.pc = "findOne", !.body = body,
                                !.snapshot = {<<u, users[u]>> :
                                    u \in FindUserByEmail(users, NormalizeEmail(body.email))}]]
    /\ UNCHANGED <<client, ops, proc, now, users, tokens, lastChange, nChanges, notes, creator, nWrites, req, resp>>

\* User.findOne resolves: 409, or go on to await User.create
RegisterFindOne(r) ==
    /\ regs[r].pc = "findOne"
    /\ LET existing == FindUserByEmail(users, Trim(ToLowerCase(regs[r].body.email)))
       IN  regs' = [regs EXCEPT ![r] =
               IF existing # {}
               THEN [@ EXCEPT !.pc = "done", !.resp = EmailExistsResponse]
               ELSE [@ EXCEPT !.pc = "create", !.passed = TRUE]]
    /\ UNCHANGED <<client, ops, proc, now, users, tokens, lastChange, nChanges, notes, creator, nWrites, req, resp>>

\* User.create resolves or rejects; generateToken and 201, or next(error)
RegisterCreate(r) ==
    /\ regs[r].pc = "create"
    /\ LET b == regs[r].body
           id == RegUserIds[r]
           doc == NewUser(b.name, b.email, b.password, now)
           token == GenerateToken(id, now)
           e == ErrorHandler(DuplicateKeyError)
       IN  IF UniqueViolation(users, doc)
           THEN /\ regs' = [regs EXCEPT ![r].pc = "done",
                                        ![r].resp = RegResp(e.status, e.message, <<>>, <<>>)]
                /\ UNCHANGED <<client, ops, proc, users, tokens>>
           ELSE /\ users' = users @@ (id :> doc)
                /\ tokens' = tokens \cup {[jwt |-> token, at |-> now]}
                /\ regs' = [regs EXCEPT ![r].pc = "done",
                                        ![r].resp = RegResp(201, "Registration successful",
                                            <<token>>, <<SanitizeUser(id, doc)>>)]
    /\ UNCHANGED <<client, ops, proc, now, lastChange, nChanges, notes, creator, nWrites, req, resp>>

NextReg ==
    \/ \E r \in RegIds, b \in RegBodies : RegisterStart(r, b)
    \/ \E r \in RegIds : RegisterFindOne(r)
    \/ \E r \in RegIds : RegisterCreate(r)

SpecReg == InitReg /\ [][NextReg]_vars

(***************************************************************************)
(* SpecRegLen: register requests with passwords around the length limits   *)
(***************************************************************************)
PwMinLen == 8          \* PASSWORD_REGEX: {8,128}
PwMaxLen == 128

\* a password of n >= 3 characters with an upper-case letter, a digit and lower-case
PwOfLen(n) == <<"A", "1">> \o [i \in 1..(n - 2) |-> "a"]

EmailOfLen(n) ==
    IF n < PwMinLen THEN <<"s", "@", "x", ".", "i", "o">>
    ELSE IF n = PwMinLen THEN <<"m", "@", "x", ".", "i", "o">>
    ELSE IF n < PwMaxLen THEN <<"b", "@", "x", ".", "i", "o">>
    ELSE IF n = PwMaxLen THEN <<"n", "@", "x", ".", "i", "o">>
    ELSE <<"l", "@", "x", ".", "i", "o">>

RegLengths == {PwMinLen - 1, PwMinLen, BcryptMaxBytes + 1, PwMaxLen, PwMaxLen + 1}

LengthBodies ==
    {[name |-> NameBob, email |-> EmailOfLen(n), password |-> PwOfLen(n)] : n \in RegLengths}

NextRegLen ==
    \/ \E r \in RegIds, b \in LengthBodies : RegisterStart(r, b)
    \/ \E r \in RegIds : RegisterFindOne(r)
    \/ \E r \in RegIds : RegisterCreate(r)

SpecRegLen == InitReg /\ [][NextRegLen]_vars

(***************************************************************************)
(* SpecLogin: one user registered with any accepted password, then logins  *)
(***************************************************************************)
RegisteredPasswords == {p \in {Pw1, PwLongA} : PasswordRegexTest(p)}

LoginPasswords == {Pw1, Pw2, PwLongA, PwLongB}

\* the state after one register request was answered 201; regs keeps the request
InitLogin ==
    \E p \in RegisteredPasswords, e \in {EmailA, <<" ", "A", "@", "x", ".", "i", "o">>} :
        LET body == [name |-> NameAnn, email |-> e, password |-> p]
            doc == NewUser(body.name, body.email, body.password, StartMs)
            token == GenerateToken("u1", StartMs)
        IN  /\ RegisterErrors(body) = {}
            /\ proc = ServerUp
            /\ now = StartMs
            /\ users = ("u1" :> doc)
            /\ tokens = {[jwt |-> token, at |-> StartMs]}
            /\ lastChange = [u \in UserIds |-> <<>>]
            /\ nChanges = 0
            /\ notes = <<>>
            /\ creator = <<>>
            /\ nWrites = 0
            /\ regs = <<[IdleReg EXCEPT !.pc = "done", !.body = body, !.passed = TRUE,
                                        !.resp = RegResp(201, "Registration successful",
                                            <<token>>, <<SanitizeUser("u1", doc)>>)]>>
            /\ client = <<>>
            /\ ops = <<>>
            /\ req = NoReq
            /\ resp = NoResp

NextLogin ==
    \/ Tick
    \/ \E e \in LoginEmails, p \in LoginPasswords : Login([email |-> e, password |-> p])
    \/ \E u \in UserIds : ChangePassword(u, Pw2)

SpecLogin == InitLogin /\ [][NextLogin]_vars

(***************************************************************************)
(* SpecBoot: the process starts with any environment, then serves requests *)
(***************************************************************************)
EnvSecrets == {<<>>, <<<<>>>>, <<Secret>>}
EnvUris == {<<>>, <<MongoUri>>}

InitBoot ==
    \E secret \in EnvSecrets, uri \in EnvUris :
        /\ proc = [phase |-> "starting",
                   env |-> [MONGO_URI |-> uri, JWT_SECRET |-> secret],
                   exitCode |-> <<>>]
        /\ now = StartMs
        /\ users = [u \in UserIds |->
                       IF u = "u1" THEN NewUser(NameAnn, EmailA, Pw1, StartMs)
                       ELSE NewUser(NameBob, EmailB, Pw2, StartMs)]
        /\ tokens = {}
        /\ lastChange = [u \in UserIds |-> <<>>]
        /\ nChanges = 0
        /\ notes = <<>>
        /\ creator = <<>>
        /\ nWrites = 0
        /\ regs = <<>>
        /\ client = <<>>
        /\ ops = <<>>
        /\ req = NoReq
        /\ resp = NoResp

\* app.js top to bottom: the REQUIRED_ENV check, process.exit(1) or app.listen
Startup ==
    /\ proc.phase = "starting"
    /\ proc' = IF MissingEnv(proc.env) # {}
               THEN [proc EXCEPT !.phase = "exited", !.exitCode = <<1>>]
               ELSE [proc EXCEPT !.phase = "listening"]
    /\ UNCHANGED <<client, ops, now, users, tokens, lastChange, nChanges, notes, creator, nWrites,
                   regs, req, resp>>

SecretMissingError ==
    [name |-> "Error", code |-> 0, keyField |-> "",
     message |-> "JWT_SECRET is not defined. Check your environment variables."]

\* POST /api/auth/login on the running server; generateToken throws without a
\* secret, else passes process.env.JWT_SECRET to jwt.sign.
\* req.jwtSecrets: the values the request handed to jwt.sign / jwt.verify
BootLogin(body) ==
    /\ proc.phase = "listening"
    /\ LET r == LoginResult(users, body, now)
           signs == r.status = 200 /\ ~Falsy(proc.env.JWT_SECRET)
       IN  /\ signs => Cardinality(tokens) < MaxTokens
           /\ tokens' = IF signs THEN tokens \cup {[jwt |-> r.token[1], at |-> now]}
                        ELSE tokens
           /\ req' = [op |-> "login", body |-> body,
                      jwtSecrets |-> IF signs THEN {proc.env.JWT_SECRET} ELSE {}]
           /\ resp' = IF r.status = 200 /\ ~signs
                      THEN ErrorHandler(SecretMissingError)
                      ELSE r
    /\ UNCHANGED <<client, ops, proc, now, users, lastChange, nChanges, notes, creator, nWrites, regs>>

\* a request through protect on the running server: jwt.verify gets
\* process.env.JWT_SECRET, and throws JsonWebTokenError when that is falsy
BootProtect(h) ==
    /\ proc.phase = "listening"
    /\ LET r == ProtectResult(h, users, now, FALSE)
           verifies == r.branch # "no-token"
       IN  /\ req' = [op |-> "protect", hdr |-> h,
                      jwtSecrets |-> IF verifies THEN {proc.env.JWT_SECRET} ELSE {}]
           /\ resp' = IF verifies /\ Falsy(proc.env.JWT_SECRET)
                      THEN Reject401("malformed", "Invalid token.")
                      ELSE r
    /\ UNCHANGED <<client, ops, proc, now, users, tokens, lastChange, nChanges, notes, creator,
                   nWrites, regs>>

NextBoot ==
    \/ Startup
    \/ Tick
    \/ \E e \in LoginEmails, p \in Passwords : BootLogin([email |-> e, password |-> p])
    \/ \E h \in HeaderInputs : BootProtect(h)

SpecBoot == InitBoot /\ [][NextBoot]_vars

(***************************************************************************)
(* SpecSession: register, login, password change and GET /api/auth/me      *)
(***************************************************************************)
SessionBodies == {b \in RegBodies : b.email = EmailC /\ b.password = Pw1}

NextSession ==
    \/ \E b \in SessionBodies : RegisterStart(1, b)
    \/ RegisterFindOne(1)
    \/ RegisterCreate(1)
    \/ ~InChain /\ \E e \in {EmailA, EmailC}, p \in Passwords :
                       Login([email |-> e, password |-> p])
    \/ \E u \in UserIds : ChangePassword(u, Pw2)
    \/ \E rq \in {x \in PipeRequests : x.op = "getMe"}, h \in PipeHeaders : Arrive(rq, h)
    \/ \E f \in BOOLEAN : RunProtect(f)
    \/ RunHandler

SpecSession == InitReg /\ [][NextSession]_vars

(***************************************************************************)
(* Claims checked under SpecAuth                                           *)
(***************************************************************************)
\* The token tk was signed strictly before the last password change of its subject.
SignedBeforeChange(tk) ==
    /\ tk.jwt.id \in DOMAIN users
    /\ lastChange[tk.jwt.id] # <<>>
    /\ tk.at < lastChange[tk.jwt.id][1]

\* C1: once a user's password has been changed at time T, every token of that user
\* signed at a time T' < T is answered 401 by protect on every request made after T.
C1_TokensBeforeChangeRejected ==
    \A tk \in tokens :
        (SignedBeforeChange(tk) /\ now > lastChange[tk.jwt.id][1])
            => ProtectResult(BearerHeader(tk.jwt), users, now, FALSE).status = 401

\* The token's issued-at second is at or after the last change time minus the margin.
IssuedAtOrAfterChange(tk) ==
    /\ tk.jwt.id \in DOMAIN users
    /\ lastChange[tk.jwt.id] # <<>>
    /\ tk.jwt.iat * MsPerSec >= lastChange[tk.jwt.id][1] - SkewMarginMs

\* C2: a token whose issued-at second is at or after the password change time minus
\* the 1000 ms margin (so every token signed with or after the change) is never
\* stale: changedPasswordAfter(iat) is false, and protect lets it through with its
\* subject attached while it is unexpired.
C2_TokensAfterChangeAccepted ==
    \A tk \in tokens :
        IssuedAtOrAfterChange(tk) =>
            /\ ~ChangedPasswordAfter(users[tk.jwt.id], tk.jwt.iat)
            /\ (now \div MsPerSec) < tk.jwt.exp =>
                   LET r == ProtectResult(BearerHeader(tk.jwt), users, now, FALSE)
                   IN  r.out = "next" /\ r.user = <<tk.jwt.id>>

\* protect has let through a token signed in the very millisecond of the password change
C2_Witness ==
    /\ req.op = "protect"
    /\ resp.out = "next"
    /\ \E tk \in tokens :
           /\ req.hdr = BearerHeader(tk.jwt)
           /\ IssuedAtOrAfterChange(tk)
           /\ tk.at = lastChange[tk.jwt.id][1]
           /\ resp.user = <<tk.jwt.id>>

\* C3: whatever the reason protect rejects a request for, the response is the same:
\* the rejection just sent has the status and the message of every other rejection
\* protect can produce in this state.
C3_RejectionsIndistinguishable ==
    (req.op = "protect" /\ resp.out = "respond") =>
        \A h \in HeaderInputs :
            LET r == ProtectResult(h, users, now, FALSE)
            IN  r.out = "respond" =>
                    (r.status = resp.status /\ r.message = resp.message)

(***************************************************************************)
(* Claims checked under SpecNotes                                          *)
(***************************************************************************)
\* The last request was an update or delete of a stored note by someone else than its owner.
ForeignRequest ==
    /\ req.op \in {"update", "delete"}
    /\ req.id \in DOMAIN notes
    /\ notes[req.id].user # req.principal

\* C4: an update or delete by B of a note owned by A # B gets the response the same
\* request gets on a well-formed id that matches no note, and for a request that
\* passes validation that response is 404 'Note not found'.
C4_ForeignSameAsMissing ==
    /\ \A n \in DOMAIN notes : \A B \in UserIds \ {notes[n].user} :
           /\ \A b \in UpdateBodies :
                  LET foreign == UpdateNoteResult(notes, n, B, b, now).resp
                      missing == UpdateNoteResult(notes, NextNoteId, B, b, now).resp
                  IN  /\ foreign = missing
                      /\ (ValidationErrors(b, TRUE) = {} /\ UpdatesOf(b) # {})
                             => foreign = NotFound
           /\ DeleteNoteResult(notes, n, B).resp = DeleteNoteResult(notes, NextNoteId, B).resp
           /\ DeleteNoteResult(notes, n, B).resp = NotFound
    /\ (ForeignRequest /\ req.op = "update") =>
           resp = UpdateNoteResult(notes, NextNoteId, req.principal, req.body, now).resp
    /\ (ForeignRequest /\ req.op = "delete") =>
           resp = DeleteNoteResult(notes, NextNoteId, req.principal).resp

\* a valid update of another user's note has been answered 404
C4_Witness ==
    /\ ForeignRequest
    /\ req.op = "update"
    /\ ValidationErrors(req.body, TRUE) = {}
    /\ resp = NotFound

\* C5: a stored note changes or disappears only in a step that handles an update or
\* delete request for that note made by the note's owner.
C5_OnlyOwnerChanges ==
    [][\A n \in DOMAIN notes :
           (n \notin DOMAIN notes' \/ notes'[n] # notes[n]) =>
               /\ req'.op \in {"update", "delete"}
               /\ req'.id = n
               /\ req'.principal = notes[n].user]_vars

\* a delete of another user's note has been handled and the note is still stored
C5_Witness ==
    /\ ForeignRequest
    /\ req.op = "delete"
    /\ resp.status = 404

\* C6: the note a create request of principal A stores has owner A, the trimmed title
\* and content of the payload, and nothing else from the payload.
C6_CreateOwnerIsPrincipal ==
    (req.op = "create" /\ resp.status = 201) =>
        /\ req.id \in DOMAIN notes
        /\ notes[req.id].user = req.principal
        /\ notes[req.id].title = Trim(req.body.title[1])
        /\ notes[req.id].content = Trim(req.body.content[1])
        /\ notes[req.id].createdAt = notes[req.id].updatedAt
        /\ notes[req.id].createdAt <= now
        /\ DOMAIN notes[req.id] = {"title", "content", "user", "createdAt", "updatedAt"}
        /\ resp.note = <<NoteJson(req.id, notes[req.id])>>

\* a create whose payload names another user as owner has stored a note of the principal
C6_Witness ==
    /\ req.op = "create"
    /\ resp.status = 201
    /\ req.body.user # <<>>
    /\ req.body.user[1] # req.principal
    /\ notes[req.id].user = req.principal

\* C7: every stored note has one owner, a user id, and it is the principal whose
\* create request stored the note.
C7_OwnerIsCreator ==
    \A n \in DOMAIN notes :
        /\ n \in DOMAIN creator
        /\ notes[n].user \in UserIds
        /\ notes[n].user = creator[n]

\* the owner has updated a note with a payload that names another user as owner
C7_Witness ==
    /\ req.op = "update"
    /\ resp.status = 200
    /\ req.body.user # <<>>
    /\ req.body.user[1] # req.principal
    /\ notes[req.id].user = req.principal
    /\ creator[req.id] = req.principal

\* C8: the list a principal gets holds only notes the principal owns, and total is
\* the number of the principal's notes, whatever the query holds.
C8_ListOnlyOwn ==
    req.op = "list" =>
        /\ \A i \in DOMAIN resp.notes :
               /\ resp.notes[i].id \in DOMAIN notes
               /\ resp.notes[i].doc = notes[resp.notes[i].id]
               /\ resp.notes[i].doc.user = req.principal
        /\ resp.count = Len(resp.notes)
        /\ resp.total = Cardinality({n \in DOMAIN notes : notes[n].user = req.principal})

\* a list whose query names another user, who has a note, returned the principal's note
C8_Witness ==
    /\ req.op = "list"
    /\ resp.count >= 1
    /\ req.body.user # <<>>
    /\ req.body.user[1] # req.principal
    /\ \E n \in DOMAIN notes : notes[n].user = req.body.user[1]

(***************************************************************************)
(* Claims checked under SpecReg                                            *)
(***************************************************************************)
\* C9: a register request whose normalised email is held by an existing user ends in
\* 409 with no token, inserts no user, and leaves the existing record as it was.
C9_DuplicateRegisterRejected ==
    \A r \in RegIds :
        (regs[r].pc = "done" /\ regs[r].snapshot # {}) =>
            /\ regs[r].resp.status = 409
            /\ regs[r].resp.token = <<>>
            /\ RegUserIds[r] \notin DOMAIN users
            /\ \A tk \in tokens : tk.jwt.id # RegUserIds[r]
            /\ \A e \in regs[r].snapshot : e[1] \in DOMAIN users /\ users[e[1]] = e[2]

\* a register with the existing email in another case and with spaces has got 409
C9_Witness ==
    \E r \in RegIds :
        /\ regs[r].pc = "done"
        /\ regs[r].resp.status = 409
        /\ \E e \in regs[r].snapshot :
               /\ e[2].email # regs[r].body.email
               /\ e[2].email = Trim(ToLowerCase(regs[r].body.email))

RegEmails == {NormalizeEmail(b.email) : b \in RegBodies}

\* the requests that passed the findOne pre-check for the normalised email e
PassedFor(e) ==
    {r \in RegIds : regs[r].passed /\ NormalizeEmail(regs[r].body.email) = e}

\* C10: no two users ever hold the same email, and of the register requests that
\* passed the findOne pre-check for one email at most one is answered 201; once all
\* of them are answered exactly one got 201 and every other one 409.
C10_ConcurrentRegisterOneWins ==
    /\ \A u, v \in DOMAIN users : u # v => users[u].email # users[v].email
    /\ \A e \in RegEmails :
           LET won == {r \in PassedFor(e) : regs[r].resp.status = 201}
           IN  /\ Cardinality(won) <= 1
               /\ (PassedFor(e) # {} /\ \A r \in PassedFor(e) : regs[r].pc = "done") =>
                      /\ Cardinality(won) = 1
                      /\ \A r \in PassedFor(e) \ won : regs[r].resp.status = 409
                      /\ Cardinality({u \in DOMAIN users : users[u].email = e}) = 1

\* two requests for one email both passed the pre-check: one got 201, the other 409
C10_Witness ==
    \E r, q \in RegIds :
        /\ r # q
        /\ regs[r].passed /\ regs[q].passed
        /\ NormalizeEmail(regs[r].body.email) = NormalizeEmail(regs[q].body.email)
        /\ regs[r].body.email # regs[q].body.email
        /\ regs[r].resp.status = 201
        /\ regs[q].resp.status = 409

(***************************************************************************)
(* Claims checked under SpecLogin                                          *)
(***************************************************************************)
\* C11: for every (email, password) pair registered once and not changed since,
\* login with that email and the same password answers 200 with a token whose
\* subject is that user, and login with that email and any other (non-empty)
\* password answers 401 without a token.
C11_LoginIffSamePassword ==
    \A r \in DOMAIN regs :
        LET b == regs[r].body
            id == regs[r].resp.user[1].id
        IN  (regs[r].resp.status = 201 /\ lastChange[id] = <<>>) =>
                \A p \in LoginPasswords :
                    LET res == LoginResult(users, [email |-> b.email, password |-> p], now)
                    IN  IF p = b.password
                        THEN res.status = 200 /\ res.token # <<>> /\ res.token[1].id = id
                        ELSE res.status = 401 /\ res.token = <<>>

\* the emails of LoginEmails that pass validateLogin and match no user
UnknownEmails ==
    {e \in LoginEmails :
        /\ LoginErrors([email |-> e, password |-> Pw1]) = {}
        /\ FindUserByEmail(users, NormalizeEmail(e)) = {}}

\* the responses of the well-formed login requests that are not answered 200
FailedLogins ==
    {res \in {LoginResult(users, [email |-> e, password |-> p], now) :
                  e \in LoginEmails, p \in LoginPasswords} :
        res.status \notin {200, 422}}

\* C12: login answers with one and the same response (401, 'Invalid email or
\* password', no token, no user) when the email matches no user and when it
\* matches a user whose password is not the one sent.
C12_LoginFailuresIndistinguishable ==
    \A res \in FailedLogins :
        /\ res.status = 401
        /\ res.message = "Invalid email or password"
        /\ FailedLogins = {res}

\* a login with the email of a user and a wrong password has just been answered 401,
\* and there is an email of no user to compare it with
C12_Witness ==
    /\ req.op = "login"
    /\ resp.status = 401
    /\ FindUserByEmail(users, NormalizeEmail(req.body.email)) # {}
    /\ UnknownEmails # {}

(***************************************************************************)
(* Claims checked under SpecAuth: tokens, protect, responses               *)
(***************************************************************************)
\* C13: a token that generateToken(subjectId) signed at time `at` expires
\* ExpiresInSec seconds after its issued-at second; at every time before that,
\* verification returns its subjectId, and at every time from then on it fails
\* with TokenExpiredError, which protect answers with 401 'Token has expired.'.
C13_VerifyUntilExpiry ==
    \A tk \in tokens :
        LET v == JwtVerify(Jwt(tk.jwt, "valid"), now)
            expiryMs == ((tk.at \div MsPerSec) + ExpiresInSec) * MsPerSec
        IN  /\ tk.jwt = GenerateToken(tk.jwt.id, tk.at)
            /\ IF now < expiryMs
               THEN v.ok /\ v.payload.id = tk.jwt.id
               ELSE /\ ~v.ok
                    /\ v.name = "TokenExpiredError"
                    /\ \A f \in BOOLEAN :
                           LET r == ProtectResult(BearerHeader(tk.jwt), users, now, f)
                           IN  r.status = 401 /\ r.message = "Token has expired."

\* protect has just rejected as expired a token of an existing user, presented in
\* the very millisecond its lifetime ended
C13_Witness ==
    /\ req.op = "protect"
    /\ resp.branch = "expired"
    /\ \E tk \in tokens :
           /\ req.hdr = BearerHeader(tk.jwt)
           /\ tk.jwt.id \in DOMAIN users
           /\ now = tk.jwt.exp * MsPerSec

(***************************************************************************)
(* Claims checked under SpecBoot                                           *)
(***************************************************************************)
\* C14: when JWT_SECRET is absent or empty at process start the server exits (code
\* 1) without ever listening, so no request is handled and no token is signed; and
\* no request ever hands an absent or empty secret to jwt.sign or jwt.verify.
C14_NoStartWithoutSecret ==
    /\ Falsy(proc.env.JWT_SECRET) =>
           /\ proc.phase \in {"starting", "exited"}
           /\ proc.phase = "exited" => proc.exitCode = <<1>>
           /\ req = NoReq /\ resp = NoResp /\ tokens = {}
    /\ req # NoReq =>
           /\ proc.phase = "listening"
           /\ \A v \in req.jwtSecrets : ~Falsy(v)

\* the process has exited because JWT_SECRET alone is the empty string
C14_Witness ==
    /\ proc.phase = "exited"
    /\ proc.env.JWT_SECRET = <<<<>>>>
    /\ ~Falsy(proc.env.MONGO_URI)

(***************************************************************************)
(* Claims checked under SpecPage                                           *)
(***************************************************************************)
\* the number of notes user u owns
Owned(u) == Cardinality({i \in DOMAIN notes : notes[i].user = u})

\* C15: with N notes owned by the user, the list operation for page p >= 1 and
\* limit l with 1 <= l <= 50 returns exactly min(l, max(0, N - (p-1)*l)) notes and
\* total = N (so for N = 7, p = 2, l = 5: 2 notes and total 7).
C15_PageSize ==
    \A u \in UserIds :
        \A o \in SortedOrders(notes, UserFilter(notes, PageQuery(1, 1), u)) :
            \A p \in 1..MaxPage, l \in 1..MAX_LIMIT :
                LET r == GetNotesResult(notes, u, PageQuery(p, l), o)
                    expected == Min(l, Max(0, Owned(u) - (p - 1) * l))
                IN  /\ Len(r.notes) = expected
                    /\ r.count = expected
                    /\ r.total = Owned(u)

\* page 2 with limit 5 of a user owning 7 notes has been answered: 2 notes, total 7
C15_Witness ==
    /\ req.op = "list"
    /\ req.body = PageQuery(2, 5)
    /\ Owned(req.principal) = 7
    /\ Len(resp.notes) = 2
    /\ resp.total = 7

(***************************************************************************)
(* Claims checked under SpecPipe                                           *)
(***************************************************************************)
\* C16: a request is at (or past) a note handler or getMe only if protect ran first
\* in that request, verified the token, found its subject and set req.user to it;
\* a request protect has rejected is answered without a handler ever running, and
\* no request changes the note store before its handler runs.
C16_HandlersBehindProtect ==
    req # NoReq =>
        /\ (req.handled \/ (req.chain # <<>> /\ Head(req.chain) # "protect")) =>
               /\ req.protect # <<>>
               /\ req.protect[1].out = "next"
               /\ req.user # <<>>
               /\ req.user = req.protect[1].user
               /\ req.user[1] \in DOMAIN users
               /\ \E tk \in tokens :
                      req.hdr = BearerHeader(tk.jwt) /\ tk.jwt.id = req.user[1]
        /\ (req.protect # <<>> /\ req.protect[1].out # "next") =>
               /\ ~req.handled
               /\ req.chain = <<>>
               /\ resp.status \in {401, 500}
        /\ ~req.handled => notes = req.storeBefore

\* a handler has run behind protect and changed the note store
C16_Witness ==
    /\ req # NoReq
    /\ req.handled
    /\ req.protect # <<>> /\ req.protect[1].out = "next"
    /\ notes # req.storeBefore

(***************************************************************************)
(* Claims checked under SpecAuth: the Authorization header                 *)
(***************************************************************************)
\* the headers tried: those of HeaderInputs, and every credential sent with
\* another scheme or with no scheme at all
SchemeHeaders ==
    HeaderInputs
        \cup {<<Word("Basic"), Sp, c>> : c \in Credentials}
        \cup {<<Word("bearer"), Sp, c>> : c \in Credentials}
        \cup {<<c>> : c \in Credentials}

\* the header begins with the word Bearer and one space
BearerPrefixed(h) == Len(h) >= 2 /\ <<h[1], h[2]>> = <<Word("Bearer"), Sp>>

\* nothing but whitespace follows the first two parts of the header
EmptyAfterPrefix(h) == \A i \in 3..Len(h) : h[i] \in {Sp, Tab}

\* C17: a request whose Authorization header is absent, does not start with
\* 'Bearer ', or has nothing but whitespace after that prefix is answered 401 by
\* protect, and req.user is not set.
C17_NoCredentialRejected ==
    \A h \in SchemeHeaders, f \in BOOLEAN :
        (h = <<>> \/ ~BearerPrefixed(h) \/ EmptyAfterPrefix(h)) =>
            LET r == ProtectResult(h, users, now, f)
            IN  r.out = "respond" /\ r.status = 401 /\ r.user = <<>>

\* protect has just rejected a header that is 'Bearer ' plus whitespace only
C17_Witness ==
    /\ req.op = "protect"
    /\ req.hdr = <<Word("Bearer"), Sp, Tab>>
    /\ resp.status = 401
    /\ resp.user = <<>>

(***************************************************************************)
(* Claims checked under SpecSession                                        *)
(***************************************************************************)
\* the responses sent so far: of the last request and of the register requests
Responses == {resp} \cup {regs[r].resp : r \in DOMAIN regs}

\* C18: no response of register, login or getMe has a password or passwordChangedAt
\* field: the user object of a response has exactly the fields id, name, email and
\* createdAt of that user, also when protect loaded the user with passwordChangedAt.
C18_NoSecretsInResponses ==
    \A x \in Responses :
        /\ DOMAIN x \cap {"password", "passwordChangedAt"} = {}
        /\ ("user" \in DOMAIN x /\ x.user # <<>>) =>
               /\ DOMAIN x.user[1] = {"id", "name", "email", "createdAt"}
               /\ x.user[1].id \in DOMAIN users
               /\ x.user[1].name = users[x.user[1].id].name
               /\ x.user[1].email = users[x.user[1].id].email
               /\ x.user[1].createdAt = users[x.user[1].id].createdAt

\* getMe has answered 200 for a user whose passwordChangedAt is set, and a
\* register request has been answered 201
C18_Witness ==
    /\ IF "handled" \in DOMAIN req THEN req.handled /\ req.op = "getMe" ELSE FALSE
    /\ resp.status = 200
    /\ resp.user # <<>>
    /\ users[resp.user[1].id].passwordChangedAt # <<>>
    /\ \E r \in DOMAIN regs : regs[r].resp.status = 201

(***************************************************************************)
(* Claims checked under SpecAuth: the pre-save hook, store errors          *)
(***************************************************************************)
\* the password user u was created with
InitialPassword(u) == IF u = "u1" THEN Pw1 ELSE Pw2

\* C19: a user has no passwordChangedAt (and the hash of the password it was
\* created with) until the first save that modifies the password of the existing
\* document; after such a save the stored password is the hash of the new one and
\* passwordChangedAt is the time of the last such save minus the margin; saves that
\* do not modify the password change neither.
C19_PasswordChangedAtTracksChanges ==
    \A u \in DOMAIN users :
        IF lastChange[u] = <<>>
        THEN /\ users[u].passwordChangedAt = <<>>
             /\ users[u].password = BcryptHash(InitialPassword(u))
        ELSE /\ users[u].passwordChangedAt = <<lastChange[u][1] - SkewMarginMs>>
             /\ users[u].password = BcryptHash(Pw2)
             /\ ComparePassword(users[u], Pw2)

\* a save that does not modify the password has followed a password change of u1
C19_Witness ==
    /\ req.op = "saveProfile"
    /\ req.user = "u1"
    /\ lastChange["u1"] # <<>>
    /\ users["u1"].passwordChangedAt = <<lastChange["u1"][1] - SkewMarginMs>>
    /\ users["u2"].passwordChangedAt = <<>>

\* C20: when the store fails during protect the client gets a generic server error:
\* status 500 and a message that is the same whatever the message of the error.
C20_StoreErrorGeneric ==
    (req.op = "protect" /\ resp.out = "error") =>
        /\ resp.status = 500
        /\ \A e \in StoreErrors : ErrorHandler(e).message = resp.message

(***************************************************************************)
(* Claims checked under SpecConc                                           *)
(***************************************************************************)
\* the requests whose store operation has been applied, in the order of the store
AppliedOrder ==
    [k \in 1..Cardinality({r \in OpIds : ops[r].seq > 0}) |->
        CHOOSE r \in OpIds : ops[r].seq = k]

\* the note after the store operations o[1..k], one after the other; <<>> when deleted
RECURSIVE Replay(_, _)
Replay(o, k) ==
    IF k = 0 THEN <<NoteCreate(<<"a">>, <<"c">>, ConcOwner, StartMs)>>
    ELSE LET before == Replay(o, k - 1)
             rq == ops[o[k]]
         IN  IF before = <<>> \/ rq.op = "deleteNote" THEN <<>>
             ELSE <<ApplyUpdates(before[1], UpdatesOf(rq.body), now)>>

\* C21: the store operations of concurrent updates and deletes of the owner act one
\* at a time, each with its filter: the note is the result of applying them in the
\* store's order (so the last update wins for the fields it sets); after a delete
\* answered 200 the note is absent for good, and every update the store applies
\* after a delete gets 404 and does not bring the note back.
C21_AtomicUpdateDelete ==
    LET o == AppliedOrder
        final == Replay(o, Len(o))
    IN  /\ IF final = <<>> THEN ConcNote \notin DOMAIN notes
           ELSE ConcNote \in DOMAIN notes /\ notes[ConcNote] = final[1]
        /\ \A k \in DOMAIN o :
               LET rq == ops[o[k]]
                   gone == Replay(o, k - 1) = <<>>
               IN  /\ rq.resp.status = IF gone THEN 404 ELSE 200
                   /\ (rq.op = "deleteNote" /\ rq.resp.status = 200) =>
                          ConcNote \notin DOMAIN notes
                   /\ (rq.op = "updateNote" /\ ~gone /\ k = Len(o)) =>
                          \A u \in UpdatesOf(rq.body) : notes[ConcNote][u[1]] = Trim(u[2])

\* an update that was received before the delete was applied after it: 404, no note
C21_Witness ==
    \E r, q \in OpIds :
        /\ ops[r].op = "deleteNote" /\ ops[r].pc = "done" /\ ops[r].resp.status = 200
        /\ ops[q].op = "updateNote" /\ ops[q].pc = "done" /\ ops[q].seq > ops[r].seq
        /\ ops[q].resp.status = 404
        /\ ConcNote \notin DOMAIN notes

(***************************************************************************)
(* Claims checked under SpecNotes: update bodies                           *)
(***************************************************************************)
\* the responses of updateNote after the store was asked: found or not found
StoreAnswered(r) == r.status \in {200, 404}

C23_PagesFromResponse ==
    (req.op = "fetch" /\ resp.status = 200) =>
        /\ "pages" \in DOMAIN resp
        /\ client.state.pages = <<CeilDiv(resp.total, ClientLimit)>>
        /\ (~client.state.loading /\ Owned("u1") > ClientLimit) =>
               PaginationShown(client.state)

Hashing == {r \in RegIds : regs[r].pc \in {"findOne", "create"} \/ regs[r].passed}

\* C25: a register request whose password has fewer than 8 or more than 128
\* characters is answered 422 by the validator, never gets as far as User.create (where
\* the pre-save hook hashes) and creates no user; every password that is hashed has
\* 8 to 128 characters.
C25_HashedPasswordLength ==
    /\ \A r \in Hashing :
           Len(regs[r].body.password) >= PwMinLen /\ Len(regs[r].body.password) <= PwMaxLen
    /\ \A r \in RegIds :
           (regs[r].pc # "idle"
                /\ (Len(regs[r].body.password) < PwMinLen
                        \/ Len(regs[r].body.password) > PwMaxLen)) =>
               /\ regs[r].pc = "done"
               /\ regs[r].resp.status = 422
               /\ FindUserByEmail(users, NormalizeEmail(regs[r].body.email)) = {}
    /\ \A u \in DOMAIN users :
           \E b \in LengthBodies \cup {[password |-> Pw1]} :
               /\ Len(b.password) >= PwMinLen /\ Len(b.password) <= PwMaxLen
               /\ users[u].password = BcryptHash(b.password)

\* a password of 129 characters was rejected and one of 128 characters was hashed
C25_Witness ==
    \E r, q \in RegIds :
        /\ regs[r].pc = "done" /\ regs[q].pc = "done"
        /\ Len(regs[r].body.password) = PwMaxLen + 1
        /\ regs[r].resp.status = 422
        /\ Len(regs[q].body.password) = PwMaxLen
        /\ regs[q].resp.status = 201
        /\ \E u \in DOMAIN users : users[u].password = BcryptHash(regs[q].body.password)

\* C26: a successful update by the owner with only title keeps the content, one with
\* only content keeps the title, and every successful update keeps the note's _id,
\* owner and createdAt, and every other note as it was.
C26_UpdateFrame ==
    \A n \in DOMAIN notes, b \in UpdateBodies :
        LET r == UpdateNoteResult(notes, n, notes[n].user, b, now)
        IN  r.resp.status = 200 =>
                /\ DOMAIN r.notes = DOMAIN notes
                /\ \A m \in DOMAIN notes \ {n} : r.notes[m] = notes[m]
                /\ r.resp.note[1].id = n
                /\ r.resp.note[1].doc = r.notes[n]
                /\ r.notes[n].user = notes[n].user
                /\ r.notes[n].createdAt = notes[n].createdAt
                /\ b.content = <<>> => r.notes[n].content = notes[n].content
                /\ b.title = <<>> => r.notes[n].title = notes[n].title

\* the owner has updated only the title of a note: new title, content as created
C26_Witness ==
    /\ req.op = "update"
    /\ resp.status = 200
    /\ req.body.title # <<>> /\ req.body.content = <<>>
    /\ req.id \in DOMAIN notes
    /\ notes[req.id].title = Trim(req.body.title[1])
    /\ notes[req.id].user = req.principal
    /\ \E c \in CreateBodies :
           /\ c.content # <<>>
           /\ notes[req.id].content = Trim(c.content[1])
           /\ notes[req.id].title # Trim(c.title[1])

(***************************************************************************)
(* Claims checked under SpecAuth: the branches of protect                  *)
(***************************************************************************)
\* the status and the body of the response protect sends
Sent(r) == [status |-> r.status, message |-> r.message]

\* the signed tokens jwt.verify accepts now whose subject is not in the user store
UnknownSubjectTokens ==
    {tk \in tokens : JwtVerify(Jwt(tk.jwt, "valid"), now).ok /\ tk.jwt.id \notin DOMAIN users}

\* C27: for a token that verifies but whose subject matches no user, protect sends
\* 401 'Invalid token.', the status and body it sends for the same token with a
\* signature that does not verify and for a string that is no token at all.
C27_UnknownSubjectAsInvalid ==
    /\ \A tk \in UnknownSubjectTokens :
           LET unknown == ProtectResult(BearerHeader(tk.jwt), users, now, FALSE)
               forged == ProtectResult(<<Word("Bearer"), Sp, Jwt(tk.jwt, "invalid")>>,
                                       users, now, FALSE)
               noise == ProtectResult(<<Word("Bearer"), Sp, Garbage>>, users, now, FALSE)
           IN  /\ unknown.out = "respond" /\ forged.out = "respond"
               /\ Sent(unknown) = [status |-> 401, message |-> "Invalid token."]
               /\ Sent(unknown) = Sent(forged)
               /\ Sent(unknown) = Sent(noise)
    /\ (req.op = "protect" /\ resp.branch \in {"unknown-subject", "malformed"}) =>
           Sent(resp) = [status |-> 401, message |-> "Invalid token."]

\* protect has answered a verified token whose subject is gone
C27_Witness ==
    /\ req.op = "protect"
    /\ resp.branch = "unknown-subject"
    /\ \E tk \in UnknownSubjectTokens : req.hdr = BearerHeader(tk.jwt)
    /\ Sent(resp) = [status |-> 401, message |-> "Invalid token."]

\* the ways a run of protect ends
Endings == {"res.401", "next", "next(error)"}

\* the positions of the step e in the trace tr
At(tr, e) == {i \in DOMAIN tr : tr[i] = e}

\* C28: every run of protect has exactly one of res.status(401).json, next() and
\* next(error), as its last step; next() comes after req.user = user; and the run ends
\* as the response tells (401 sent, passed on with req.user, or error passed on).
C28_OneOutcome ==
    /\ \A h \in HeaderInputs, f \in BOOLEAN :
           LET tr == ProtectTrace(h, users, now, f)
               r == ProtectResult(h, users, now, f)
           IN  /\ Cardinality({i \in DOMAIN tr : tr[i] \in Endings}) = 1
               /\ tr[Len(tr)] \in Endings
               /\ At(tr, "next") # {} =>
                      \E i \in At(tr, "req.user") : \A k \in At(tr, "next") : i < k
               /\ r.out = "respond" <=> tr[Len(tr)] = "res.401"
               /\ r.out = "next" <=> tr[Len(tr)] = "next"
               /\ r.out = "error" <=> tr[Len(tr)] = "next(error)"
               /\ r.out = "next" <=> r.user # <<>>
               /\ r.out = "respond" => r.status = 401
    /\ req.op = "protect" => resp.out \in {"respond", "next", "error"}

\* the store failed under a verified token: protect ended with next(error) only
C28_Witness ==
    /\ req.op = "protect"
    /\ resp.out = "error"
    /\ ProtectTrace(req.hdr, users, now, TRUE)
           = <<"extract", "verify", "findById", "next(error)">>

\* C29: protect takes its steps in the order extraction, verification, lookup,
\* password-change comparison: the store is queried only after jwt.verify has accepted
\* the token, and the comparison is made only after the lookup found the subject.
C29_CheckOrder ==
    /\ \A h \in HeaderInputs, f \in BOOLEAN :
           LET tr == ProtectTrace(h, users, now, f)
               checks == SelectSeq(tr, LAMBDA e : e \notin Endings \cup {"req.user"})
               cred == TrimSeg(SplitSpace(h, <<>>)[2])
           IN  /\ checks = SubSeq(<<"extract", "verify", "findById", "changedPasswordAfter">>,
                                  1, Len(checks))
               /\ Len(checks) >= 1
               /\ At(tr, "findById") # {} =>
                      /\ cred # <<>>
                      /\ JwtVerify(cred[1], now).ok
               /\ At(tr, "changedPasswordAfter") # {} =>
                      /\ ~f
                      /\ JwtVerify(cred[1], now).payload.id \in DOMAIN users
    /\ (req.op = "protect" /\ resp.branch \in {"no-token", "malformed", "expired"}) =>
           At(ProtectTrace(req.hdr, users, now, FALSE), "findById") = {}

\* an expired token of an existing user was rejected without a query of the store
C29_Witness ==
    /\ req.op = "protect"
    /\ resp.branch = "expired"
    /\ \E tk \in tokens : tk.jwt.id \in DOMAIN users /\ req.hdr = BearerHeader(tk.jwt)
    /\ ProtectTrace(req.hdr, users, now, FALSE) = <<"extract", "verify", "res.401">>

(***************************************************************************)
(* Claims checked under SpecSave                                           *)
(***************************************************************************)
\* C30: state.saving is true exactly while a createNote, updateNote or deleteNote
\* request is in flight: true when at least one is, false once all have completed.
C30_SavingWhileInFlight ==
    client.state.saving <=> \E i \in DOMAIN client.inflight : client.inflight[i].op \in SaveOps

====
